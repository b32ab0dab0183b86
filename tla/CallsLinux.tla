----------------------------- MODULE CallsLinux ------------------------------
(***************************************************************************)
(* The Linux functions: everything is read from files of /proc and /sys.   *)
(* The paths, built once per process in static variables, are left out.    *)
(***************************************************************************)
EXTENDS SigarStatements, TLC

Common == INSTANCE CallsCommon

sigar_boot_time_get == <<Get("stat_fp", Fail), While(<<When(<<Break>>)>>), Free("stat_fp")>> \o OK
sigar_os_open == <<Alloc("sigar"), Call("sigar_boot_time_get", PassOn)>> \o OK
sigar_os_close == <<Free("sigar")>> \o OK

-----------------------------------------------------------------------------
(* The system.                                                             *)

get_ram ==
  <<When(OK), When(Fail), Get("mtrr", Fail), While(<<When(<<Continue>>)>>), Free("mtrr"), If(Fail, OK)>>
sigar_mem_get == <<Call("sigar_file2str", PassOn), Do("get_ram")>> \o OK
sigar_swap_get ==
  <<Call("sigar_file2str", PassOn),
    Call("sigar_file2str", <<Call("sigar_file2str", PassOn)>>)>> \o OK
sigar_cpu_get == <<Call("sigar_file2str", PassOn)>> \o OK
sigar_uptime_get == <<Call("sigar_file2str", PassOn)>> \o OK
sigar_loadavg_get == <<Call("sigar_file2str", PassOn)>> \o OK
sigar_system_stats_get == <<Get("stat_fp", Fail), While(<< >>), Free("stat_fp")>> \o OK

\* With no cpu%d line the one entry is read from cpu_total, which nothing set.
sigar_cpu_list_get ==
  <<Get("stat_fp", Fail), Call("sigar_skip_file_lines", <<Free("stat_fp")>> \o Fail),
    Do("sigar_cpu_list_create"),
    While(<<When(<<Break>>), If(<<Use("out")>>, <<Grow("sigar_cpu_list_grow")>>)>>),
    When(<<Use("cpu_total")>>), Free("stat_fp")>> \o OK

get_cpuinfo_max_freq == <<Do("sigar_file2str")>> \o OK
get_cpuinfo_min_freq == <<Do("sigar_file2str")>> \o OK
sigar_cpu_info_list_get ==
  <<Get("cpuinfo", Fail), Do("sigar_cpu_info_list_create"),
    While(<<When(<<Continue>>), Do("get_cpuinfo_max_freq"), Do("get_cpuinfo_min_freq"),
            Grow("sigar_cpu_info_list_grow")>>), Free("cpuinfo")>> \o OK

get_linux_vendor_info ==
  <<Let("ERR"), While(<<When(<<Continue>>), Call("sigar_file2str", << >>), Break>>),
    IfOk(OK, PassOn)>>
sigar_os_sys_info_get == <<Do("get_linux_vendor_info")>> \o OK
sigar_sys_info_get_uuid ==
  <<Get("machine_id", << >>),
    IfNull("machine_id",
      <<Get("by_uuid", << >>),
        IfNull("by_uuid", << >>, <<While(<<When(<<Break>>)>>), Free("by_uuid")>>)>>,
      <<Free("machine_id")>>),
    If(OK, NotImpl)>>
sigar_os_is_in_container ==
  <<Get("cgroup", OK), While(<<When(<<Continue>>), When(<<Break>>)>>), Free("cgroup")>> \o OK

-----------------------------------------------------------------------------
(* Processes.                                                              *)

get_proc_signal_offset == <<Call("sigar_file2str", OK)>> \o OK
proc_isthread == <<Get("fd", OK), Free("fd")>> \o OK
sigar_os_proc_list_get ==
  <<Get("proc_dir", Fail), When(<<Do("get_proc_signal_offset")>>),
    While(<<When(<<Continue>>), When(<<Do("proc_isthread"), When(<<Continue>>)>>),
            Grow("sigar_proc_list_grow")>>),
    Free("proc_dir")>> \o OK

proc_stat_read == <<When(OK), Call("sigar_proc_file2str", PassOn), If(<< >>, Fail), If(<< >>, Fail)>> \o OK
sigar_proc_mem_get == <<Do("proc_stat_read"), Call("sigar_proc_file2str", PassOn)>> \o OK
sigar_proc_cumulative_disk_io_get == <<Call("sigar_proc_file2str", PassOn)>> \o OK
sigar_proc_cred_get == <<Call("sigar_proc_file2str", PassOn), If(<< >>, Fail), If(<< >>, Fail)>> \o OK
sigar_proc_time_get == <<Call("proc_stat_read", PassOn)>> \o OK
proc_status_get == <<Call("sigar_proc_file2str", PassOn)>> \o OK

sigar_proc_state_get ==
  <<Call("proc_stat_read", PassOn), Null("procargs"),
    When(<<DoOn("sigar_procfs_args_get", "procargs")>>), DoOn("sigar_proc_args_destroy", "procargs"),
    Do("proc_status_get"), Do("sigar_proc_fd_get")>> \o OK
sigar_os_proc_args_get == ReturnCall("sigar_procfs_args_get")
sigar_proc_env_get ==
  <<When(OK), Get("environ", Fail), Free("environ"), While(<<When(<<Break>>)>>)>> \o OK
sigar_proc_fd_get == ReturnCall("sigar_proc_fd_count")
sigar_proc_exe_get == <<Do("sigar_elf_file_guess_arch")>> \o OK

sigar_proc_modules_get(getter) ==
  <<Get("maps", Fail), While(<<When(<<Continue>>), Call(getter, <<Break>>)>>), Free("maps")>> \o OK
sigar_thread_cpu_get == <<If(NotImpl, OK)>>

-----------------------------------------------------------------------------
(* File systems.                                                           *)

sigar_file_system_list_get ==
  <<Get("mnt", Fail), Do("sigar_file_system_list_create"),
    While(<<Grow("sigar_file_system_list_grow")>>), Free("mnt")>> \o OK
get_iostat_sys == <<Call("sigar_iodev_get", Fail), Call("sigar_file2str", PassOn)>> \o OK
get_iostat_proc_dstat ==
  <<Call("sigar_iodev_get", Fail), Try(Fail), Get("diskstats", Fail), Let("ERR"),
    While(<<When(<<Let("ERR"), When(<<Let("OK"), Break>>)>>)>>), Free("diskstats"), ReturnStatus>>
get_iostat_procp ==
  <<Call("sigar_iodev_get", Fail), Try(Fail), Get("partitions", Fail),
    Call("sigar_skip_file_lines", <<Free("partitions")>> \o Fail),
    While(<<When(<<Free("partitions")>> \o OK)>>), Free("partitions")>> \o Fail

\* uptime is read whether or not sigar_uptime_get could fill it in.
sigar_disk_usage_get ==
  <<Let("ERR"),
    When(<<If(<<Call("get_iostat_sys", << >>)>>,
              <<If(<<Call("get_iostat_proc_dstat", << >>)>>, <<Call("get_iostat_procp", << >>)>>)>>)>>),
    IfOk(<<Call("sigar_uptime_get", << >>), IfOk(<<Set("uptime")>>, << >>), Use("uptime"), Let("OK")>>, << >>),
    ReturnStatus>>
sigar_file_system_usage_get == <<Call("sigar_statvfs", PassOn), Do("sigar_disk_usage_get")>> \o OK

-----------------------------------------------------------------------------
(* The network.                                                            *)

sigar_net_route_list_get ==
  <<Null("out"), Get("route", Fail), Do("sigar_net_route_list_create"),
    Call("sigar_skip_file_lines", <<Free("route")>> \o Fail),
    While(<<Grow("sigar_net_route_list_grow")>>), Free("route")>> \o OK
sigar_arp_list_get ==
  <<Null("out"), Get("arp", Fail), Do("sigar_arp_list_create"),
    Call("sigar_skip_file_lines", <<Free("arp")>> \o Fail),
    While(<<Grow("sigar_arp_list_grow")>>), Free("arp")>> \o OK

nic_speed_get == <<Get("speed", Fail), Free("speed"), If(OK, Fail)>>
sigar_net_interface_stat_get ==
  <<Get("net_dev", Fail), Call("sigar_skip_file_lines", <<Free("net_dev")>> \o Fail), Let("ERR"),
    While(<<When(<<Continue>>), Do("nic_speed_get"), Let("OK"), Break>>), Free("net_dev"), ReturnStatus>>
proc_net_interface_list_get ==
  <<Get("net_dev", Fail), Call("sigar_skip_file_lines", <<Free("net_dev")>> \o Fail),
    While(<<When(<<Continue>>), Grow("sigar_net_interface_list_grow")>>), Free("net_dev")>> \o OK
sigar_net_interface_ipv6_config_get ==
  <<Get("if_inet6", Fail), Let("ERR"), While(<<When(<<Let("OK"), Break>>)>>), Free("if_inet6"), ReturnStatus>>

\* connlist: a list is collected, or one connection is looked for.
proc_net_walker(connlist) ==
  IF connlist THEN <<Grow("sigar_net_connection_list_grow")>> \o OK ELSE <<If(Fail, OK)>>
xproc_open == When(<<Get("net_fp", << >>)>>)

\* Stopping early leaves the file open.
proc_net_readStops(add_connection) ==
  <<Null("net_fp"), When(<<xproc_open>>), IfNull("net_fp", <<Get("net_fp", Fail)>>, << >>),
    Call("sigar_skip_file_lines", <<Free("net_fp")>> \o Fail),
    While(<<When(<<Continue>>), Call(add_connection, OK)>>), Free("net_fp")>> \o OK

\* proc_net: the mirrored file of SIGAR_PROC_NET is tried first (xproc_open).
proc_net_read(add_connection) ==
  <<Null("net_fp"), When(<<xproc_open>>), IfNull("net_fp", <<Get("net_fp", Fail)>>, << >>),
    Call("sigar_skip_file_lines", <<Free("net_fp")>> \o Fail),
    While(<<When(<<Continue>>), Call(add_connection, <<Free("net_fp")>> \o OK)>>), Free("net_fp")>> \o OK

\* Each of tcp, udp and raw: the file must be there, that of IPv6 need not.
sigar_net_connection_walk(read) ==
  LET both == When(<<Call(read, PassOn), Call(read, <<When(PassOn)>>)>>)
  IN <<both, both, both>> \o OK
sigar_net_connection_list_get ==
  <<Do("sigar_net_connection_list_create"),
    Call("sigar_net_connection_walk(list)", <<Do("sigar_net_connection_list_destroy")>>), ReturnStatus>>
sigar_net_connection_get == ReturnCall("sigar_net_connection_walk(conn)")
sigar_net_connection_listeners_get ==
  <<Call("sigar_net_connection_list_get", PassOn), While(<<Use("out"), Do("sigar_proc_port_get")>>)>> \o OK

sigar_proc_port_get ==
  <<Call("sigar_net_connection_get", PassOn), When(OK), Get("proc_dir", Fail),
    While(<<When(<<Continue>>), Try(<<Continue>>), Get("fd_dir", <<Continue>>),
            While(<<When(<<Continue>>), Try(<<Continue>>), When(<<Free("fd_dir"), Free("proc_dir")>> \o OK)>>),
            Free("fd_dir")>>),
    Free("proc_dir")>> \o OK

sigar_tcp_get ==
  <<Get("snmp", Fail), Let("ERR"), While(<<When(<<Let("OK"), Break>>)>>), Free("snmp"), ReturnStatus>>
sigar_proc_nfs_gets ==
  <<Get("nfs_fp", NotImpl), Let("ERR"), While(<<When(<<Let("OK"), Break>>)>>), Free("nfs_fp"), ReturnStatus>>
sigar_nfs_v2_get == <<Call("sigar_proc_nfs_gets", PassOn)>> \o OK
sigar_nfs_v3_get == <<Call("sigar_proc_nfs_gets", PassOn)>> \o OK
sigar_nfs_client_v2_get == ReturnCall("sigar_nfs_v2_get")
sigar_nfs_server_v2_get == ReturnCall("sigar_nfs_v2_get")
sigar_nfs_client_v3_get == ReturnCall("sigar_nfs_v3_get")
sigar_nfs_server_v3_get == ReturnCall("sigar_nfs_v3_get")

-----------------------------------------------------------------------------
(* The functions by name.                                                  *)

Fns ==
  [sigar_boot_time_get |-> sigar_boot_time_get, sigar_os_open |-> sigar_os_open,
   sigar_os_close |-> sigar_os_close, get_ram |-> get_ram, sigar_mem_get |-> sigar_mem_get,
   sigar_swap_get |-> sigar_swap_get, sigar_cpu_get |-> sigar_cpu_get,
   sigar_uptime_get |-> sigar_uptime_get, sigar_loadavg_get |-> sigar_loadavg_get,
   sigar_system_stats_get |-> sigar_system_stats_get, sigar_cpu_list_get |-> sigar_cpu_list_get,
   get_cpuinfo_max_freq |-> get_cpuinfo_max_freq, get_cpuinfo_min_freq |-> get_cpuinfo_min_freq,
   sigar_cpu_info_list_get |-> sigar_cpu_info_list_get, get_linux_vendor_info |-> get_linux_vendor_info,
   sigar_os_sys_info_get |-> sigar_os_sys_info_get, sigar_sys_info_get_uuid |-> sigar_sys_info_get_uuid,
   sigar_os_is_in_container |-> sigar_os_is_in_container,
   get_proc_signal_offset |-> get_proc_signal_offset, proc_isthread |-> proc_isthread,
   sigar_os_proc_list_get |-> sigar_os_proc_list_get, proc_stat_read |-> proc_stat_read,
   sigar_proc_mem_get |-> sigar_proc_mem_get,
   sigar_proc_cumulative_disk_io_get |-> sigar_proc_cumulative_disk_io_get,
   sigar_proc_cred_get |-> sigar_proc_cred_get, sigar_proc_time_get |-> sigar_proc_time_get,
   proc_status_get |-> proc_status_get, sigar_proc_state_get |-> sigar_proc_state_get,
   sigar_os_proc_args_get |-> sigar_os_proc_args_get, sigar_proc_env_get |-> sigar_proc_env_get,
   sigar_proc_fd_get |-> sigar_proc_fd_get, sigar_proc_exe_get |-> sigar_proc_exe_get,
   sigar_thread_cpu_get |-> sigar_thread_cpu_get,
   sigar_file_system_list_get |-> sigar_file_system_list_get, get_iostat_sys |-> get_iostat_sys,
   get_iostat_proc_dstat |-> get_iostat_proc_dstat, get_iostat_procp |-> get_iostat_procp,
   sigar_disk_usage_get |-> sigar_disk_usage_get,
   sigar_file_system_usage_get |-> sigar_file_system_usage_get,
   sigar_net_route_list_get |-> sigar_net_route_list_get, sigar_arp_list_get |-> sigar_arp_list_get,
   nic_speed_get |-> nic_speed_get, sigar_net_interface_stat_get |-> sigar_net_interface_stat_get,
   proc_net_interface_list_get |-> proc_net_interface_list_get,
   sigar_net_interface_ipv6_config_get |-> sigar_net_interface_ipv6_config_get,
   sigar_net_connection_list_get |-> sigar_net_connection_list_get,
   sigar_net_connection_get |-> sigar_net_connection_get,
   sigar_net_connection_listeners_get |-> sigar_net_connection_listeners_get,
   sigar_proc_port_get |-> sigar_proc_port_get, sigar_tcp_get |-> sigar_tcp_get,
   sigar_proc_nfs_gets |-> sigar_proc_nfs_gets, sigar_nfs_v2_get |-> sigar_nfs_v2_get,
   sigar_nfs_v3_get |-> sigar_nfs_v3_get, sigar_nfs_client_v2_get |-> sigar_nfs_client_v2_get,
   sigar_nfs_server_v2_get |-> sigar_nfs_server_v2_get,
   sigar_nfs_client_v3_get |-> sigar_nfs_client_v3_get,
   sigar_nfs_server_v3_get |-> sigar_nfs_server_v3_get]
  @@ "sigar_proc_modules_get" :> sigar_proc_modules_get("module_getter")
  @@ "sigar_proc_modules_get(self)" :> sigar_proc_modules_get("proc_module_get_self")
  @@ "proc_net_walker(list)" :> proc_net_walker(TRUE)
  @@ "proc_net_walker(conn)" :> proc_net_walker(FALSE)
  @@ "proc_net_read(list)" :> proc_net_read("proc_net_walker(list)")
  @@ "proc_net_read(conn)" :> proc_net_read("proc_net_walker(conn)")
  @@ "proc_net_read(stat)" :> proc_net_read("net_stat_walker")
  @@ "proc_net_read(port)" :> proc_net_read("net_stat_port_walker")
  @@ "sigar_net_connection_walk(list)" :> sigar_net_connection_walk("proc_net_read(list)")
  @@ "sigar_net_connection_walk(conn)" :> sigar_net_connection_walk("proc_net_read(conn)")
  @@ "sigar_net_connection_walk(stat)" :> sigar_net_connection_walk("proc_net_read(stat)")
  @@ "sigar_net_connection_walk(port)" :> sigar_net_connection_walk("proc_net_read(port)")
  @@ "hwaddr_lookup" :> Common!get_interface_type
  @@ "sigar_net_interface_list_get" :>
       Common!sigar_net_interface_list_get(<<Do("proc_net_interface_list_get")>>)
  @@ Common!Fns

Api ==
  [f \in {"sigar_system_stats_get", "sigar_os_is_in_container", "sigar_proc_modules_get",
          "sigar_proc_cumulative_disk_io_get", "sigar_thread_cpu_get", "sigar_nfs_client_v2_get",
          "sigar_nfs_server_v2_get", "sigar_nfs_client_v3_get", "sigar_nfs_server_v3_get"} |-> ""]
  @@ Common!Api

Fields == Common!BaseFields

-----------------------------------------------------------------------------
(* Where the code departs from the properties of SigarCalls.               *)

\* A header line that cannot be skipped: the list is not destroyed
\* (linux_sigar.c:1881, 2685).
Leaks ==
  Common!Leaks \cup Common!IfConfLeaks \cup
  {<<"sigar_net_route_list_get", "list">>, <<"sigar_get_default_gateway", "routelist">>,
   <<"sigar_arp_list_get", "list">>}

\* With no cpu%d line, cpu_total is read, which nothing set (linux_sigar.c:508);
\* uptime is, if sigar_uptime_get failed (1574).
Faults ==
  Common!IfConfFaults \cup
  {<<"sigar_cpu_list_get", "cpu_total">>, <<"sigar_disk_usage_get", "uptime">>}

Dangles == {"ifconf_buf"}
Kept == {}
==============================================================================
