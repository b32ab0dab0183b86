------------------------------- MODULE CallsAix -------------------------------
(***************************************************************************)
(* The AIX functions: most read libperfstat or the kernel's memory, and    *)
(* own little between calls.                                               *)
(***************************************************************************)
EXTENDS SigarStatements, TLC

Common == INSTANCE CallsCommon

\* What sigar_t owns here.  procsinfo: the contents of pinfo; last_pid: null
\* is -1; kmem: null is -1; thrusage: live while collection is started.
Fields ==
  Common!BaseFields \cup
  {"kmem", "koffsets", "pinfo", "procsinfo", "last_pid", "cpuinfo", "swaps", "diskmap", "thrusage"}

\* Without /dev/kmem koffsets is what malloc left there.
sigar_os_open ==
  <<Get("kmem", << >>), Alloc("sigar"), Null("last_pid"), Null("pinfo"), Null("cpuinfo"),
    Null("swaps"),
    IfNull("kmem", << >>,
           <<Call("get_koffsets", << >>), IfOk(<< >>, <<Free("kmem"), Null("kmem")>>)>>),
    Null("thrusage"), Null("diskmap")>> \o OK

sigar_os_close ==
  <<Release("swaps"), Release("kmem"), Release("pinfo"), Release("cpuinfo"), Release("diskmap"),
    Release("thrusage"), Free("sigar")>> \o OK

get_koffsets == <<Try(Fail), Set("koffsets")>> \o OK
kread == <<IfNull("kmem", Fail, << >>), Try(Fail), Try(Fail)>> \o OK

-----------------------------------------------------------------------------
(* The system.                                                             *)

sigar_mem_get == <<Try(Fail)>> \o OK
sigar_swap_get == <<While(<<Try(<<Continue>>), When(<<Continue>>)>>)>> \o OK
sigar_cpu_get == <<Try(Fail)>> \o OK
sigar_cpu_list_get == <<Do("sigar_cpu_list_create"), While(<<Grow("sigar_cpu_list_grow")>>)>> \o OK
sigar_cpu_info_list_get ==
  <<Do("sigar_cpu_info_list_create"), While(<<Grow("sigar_cpu_info_list_grow")>>)>> \o OK
boot_time ==
  <<Get("utmp", Fail), Forever(<<Try(<<Free("utmp")>> \o Fail), When(<<Break>>)>>), Free("utmp")>> \o OK
sigar_uptime_get == <<When(<<Call("boot_time", PassOn)>>)>> \o OK
sigar_loadavg_get == <<Try(Fail)>> \o OK
sigar_system_stats_get == NotImpl

sigar_who_utmp ==
  <<Get("utmp", Fail),
    While(<<When(<<Continue>>), When(<<Continue>>), Grow("sigar_who_list_grow")>>), Free("utmp")>> \o OK

sigar_os_sys_info_get == OK
sigar_sys_info_get_uuid == NotImpl
sigar_os_is_in_container == OK

-----------------------------------------------------------------------------
(* Processes.                                                              *)

\* Only 0 ends the loop: an error, -1, adds what info held before.
sigar_os_proc_list_get ==
  <<Forever(<<If(<<Set("info")>>, <<When(<<Break>>)>>), Use("info"), Grow("sigar_proc_list_grow")>>)>> \o OK

\* A second call for the pid of the last one returns at once, also when that
\* one failed.
sigar_getprocs ==
  <<Lazy("pinfo"), IfNull("last_pid", << >>, <<When(OK)>>), Set("last_pid"),
    Try(Fail), Set("procsinfo")>> \o OK

sigar_proc_mem_get == <<Call("sigar_getprocs", PassOn), Use("procsinfo")>> \o OK
sigar_proc_cumulative_disk_io_get == <<Call("sigar_getprocs", PassOn), Use("procsinfo")>> \o OK
sigar_proc_cred_get == <<Call("sigar_getprocs", PassOn), Use("procsinfo")>> \o OK
sigar_proc_time_get == <<Call("sigar_getprocs", PassOn), Use("procsinfo")>> \o OK
sigar_proc_state_get == <<Call("sigar_getprocs", PassOn), Use("procsinfo")>> \o OK

sigar_os_proc_args_get == <<Try(Fail), While(<<Grow("sigar_proc_args_grow")>>)>> \o OK
sigar_proc_env_get == <<Try(Fail), While(<<When(<<Break>>), When(<<Break>>)>>)>> \o OK

\* Not in a 64-bit build.  Of the errors of getuser only EINVAL returns.
sigar_proc_fd_get ==
  <<When(NotImpl), If(<<Set("uinfo")>>, <<When(NotImpl)>>), Use("uinfo")>> \o OK
sigar_proc_exe_get == <<Do("sigar_elf_file_guess_arch")>> \o OK

\* Of the errors of loadquery only ENOMEM is looked at.
sigar_proc_modules_local_get(getter) ==
  <<Alloc("ld_buffer"), While(<<Use("ld_buffer")>>), When(<<Set("ldinfo")>>),
    Forever(<<Use("ldinfo"), Call(getter, <<Free("ld_buffer")>> \o PassOn), If(<< >>, <<Break>>)>>),
    Free("ld_buffer")>> \o OK
sigar_proc_modules_get == <<If(ReturnCall("sigar_proc_modules_local_get"), NotImpl)>>

\* The collection counts as started when starting it failed.
sigar_thread_cpu_get ==
  <<IfNull("thrusage", <<Alloc("thrusage"), Try(Fail)>>, << >>), Try(Fail)>> \o OK

\* The tables of every process: file, socket, protosw, domain, inpcb.
sigar_proc_port_get ==
  LET read == <<Call("kread", <<Continue>>), When(<<Continue>>)>>
  IN <<When(NotImpl),
       Forever(<<When(<<Break>>), When(<<Continue>>),
                 While(<<When(<<Continue>>)>> \o read \o read \o read \o read \o read \o OK)>>)>> \o Fail

-----------------------------------------------------------------------------
(* File systems.                                                           *)

sigar_file_system_list_get ==
  <<Try(Fail), Alloc("mnt_buf"), Try(<<Free("mnt_buf")>> \o Fail),
    Do("sigar_file_system_list_create"), While(<<Use("mnt_buf"), Grow("sigar_file_system_list_grow")>>),
    Free("mnt_buf")>> \o OK

create_diskmap ==
  <<Try(Fail), Alloc("disk"), Try(<<Free("disk")>> \o Fail), Alloc("diskmap"), Alloc("odm"),
    While(<<Use("disk"), Get("dv", <<Continue>>),
            While(<<Get("attr", <<Continue>>), When(<<Use("diskmap")>>), Free("attr")>>), Free("dv")>>),
    Free("disk"), Free("odm")>> \o OK

sigar_disk_usage_get == <<Try(Fail)>> \o OK
sigar_file_system_usage_get ==
  <<Call("sigar_statvfs", PassOn), IfNull("diskmap", <<Call("create_diskmap", OK)>>, << >>),
    When(<<Use("diskmap"), When(OK), Do("sigar_disk_usage_get")>>)>> \o OK

-----------------------------------------------------------------------------
(* The network.                                                            *)

sigar_net_route_list_get ==
  <<Try(Fail), Alloc("rt_buf"), Try(Fail), Do("sigar_net_route_list_create"),
    While(<<Use("rt_buf"), When(<<Continue>>), When(<<Continue>>), Grow("sigar_net_route_list_grow")>>),
    Free("rt_buf")>> \o OK
sigar_net_interface_stat_get == <<Try(Fail)>> \o OK
sigar_net_interface_ipv6_config_get == <<Get("sock6", Fail), Free("sock6")>> \o OK

net_conn_get_tcp(add_connection) ==
  <<Call("kread", PassOn),
    While(<<Call("kread", PassOn), Call("kread", PassOn),
            When(<<Call(add_connection, <<Break>>)>>), When(<<Break>>)>>)>> \o OK
sigar_net_connection_walk(tcp) == <<When(<<Call(tcp, PassOn)>>)>> \o OK
sigar_net_listeners_get ==
  <<Call("sigar_net_connection_walk(list)", PassOn), While(<<Use("out"), Do("sigar_proc_port_get")>>)>> \o OK

sigar_tcp_get == <<Try(Fail)>> \o OK
sigar_nfs_client_v2_get == <<Try(Fail)>> \o OK
sigar_nfs_server_v2_get == <<Try(Fail)>> \o OK
sigar_nfs_client_v3_get == <<Try(Fail)>> \o OK
sigar_nfs_server_v3_get == <<Try(Fail)>> \o OK

sigar_arp_list_get ==
  LET stop == <<Let("ERR"), Break>>
  IN <<Use("koffsets"), Try(Fail), Try(Fail), Do("sigar_arp_list_create"), Let("OK"),
       While(<<Try(stop), When(<<Continue>>), Try(stop), Grow("sigar_arp_list_grow")>>),
       IfOk(<< >>, <<Do("sigar_arp_list_destroy")>>), ReturnStatus>>

-----------------------------------------------------------------------------
(* The functions by name.                                                  *)

Fns ==
  [sigar_os_open |-> sigar_os_open, sigar_os_close |-> sigar_os_close, get_koffsets |-> get_koffsets,
   kread |-> kread, sigar_mem_get |-> sigar_mem_get, sigar_swap_get |-> sigar_swap_get,
   sigar_cpu_get |-> sigar_cpu_get, sigar_cpu_list_get |-> sigar_cpu_list_get,
   sigar_cpu_info_list_get |-> sigar_cpu_info_list_get, boot_time |-> boot_time,
   sigar_uptime_get |-> sigar_uptime_get, sigar_loadavg_get |-> sigar_loadavg_get,
   sigar_system_stats_get |-> sigar_system_stats_get, sigar_who_utmp |-> sigar_who_utmp,
   sigar_os_sys_info_get |-> sigar_os_sys_info_get, sigar_sys_info_get_uuid |-> sigar_sys_info_get_uuid,
   sigar_os_is_in_container |-> sigar_os_is_in_container,
   sigar_os_proc_list_get |-> sigar_os_proc_list_get, sigar_getprocs |-> sigar_getprocs,
   sigar_proc_mem_get |-> sigar_proc_mem_get,
   sigar_proc_cumulative_disk_io_get |-> sigar_proc_cumulative_disk_io_get,
   sigar_proc_cred_get |-> sigar_proc_cred_get, sigar_proc_time_get |-> sigar_proc_time_get,
   sigar_proc_state_get |-> sigar_proc_state_get, sigar_os_proc_args_get |-> sigar_os_proc_args_get,
   sigar_proc_env_get |-> sigar_proc_env_get, sigar_proc_fd_get |-> sigar_proc_fd_get,
   sigar_proc_exe_get |-> sigar_proc_exe_get, sigar_proc_modules_get |-> sigar_proc_modules_get,
   sigar_thread_cpu_get |-> sigar_thread_cpu_get, sigar_proc_port_get |-> sigar_proc_port_get,
   sigar_file_system_list_get |-> sigar_file_system_list_get, create_diskmap |-> create_diskmap,
   sigar_disk_usage_get |-> sigar_disk_usage_get,
   sigar_file_system_usage_get |-> sigar_file_system_usage_get,
   sigar_net_route_list_get |-> sigar_net_route_list_get,
   sigar_net_interface_stat_get |-> sigar_net_interface_stat_get,
   sigar_net_interface_ipv6_config_get |-> sigar_net_interface_ipv6_config_get,
   sigar_net_listeners_get |-> sigar_net_listeners_get, sigar_tcp_get |-> sigar_tcp_get,
   sigar_nfs_client_v2_get |-> sigar_nfs_client_v2_get,
   sigar_nfs_server_v2_get |-> sigar_nfs_server_v2_get,
   sigar_nfs_client_v3_get |-> sigar_nfs_client_v3_get,
   sigar_nfs_server_v3_get |-> sigar_nfs_server_v3_get, sigar_arp_list_get |-> sigar_arp_list_get]
  @@ "sigar_proc_modules_local_get" :> sigar_proc_modules_local_get("module_getter")
  @@ "sigar_proc_modules_get(self)" :> sigar_proc_modules_local_get("proc_module_get_self")
  @@ "net_conn_get_tcp(list)" :> net_conn_get_tcp("net_connection_list_walker")
  @@ "net_conn_get_tcp(stat)" :> net_conn_get_tcp("net_stat_walker")
  @@ "net_conn_get_tcp(port)" :> net_conn_get_tcp("net_stat_port_walker")
  @@ "sigar_net_connection_walk(list)" :> sigar_net_connection_walk("net_conn_get_tcp(list)")
  @@ "sigar_net_connection_walk(stat)" :> sigar_net_connection_walk("net_conn_get_tcp(stat)")
  @@ "sigar_net_connection_walk(port)" :> sigar_net_connection_walk("net_conn_get_tcp(port)")
  @@ "sigar_net_listeners_get(list)" :> sigar_net_listeners_get
  @@ "hwaddr_lookup" :> Common!hwaddr_aix_lookup
  @@ Common!Fns

Api ==
  [f \in {"sigar_system_stats_get", "sigar_os_is_in_container", "sigar_proc_modules_get",
          "sigar_proc_cumulative_disk_io_get", "sigar_thread_cpu_get", "sigar_nfs_client_v2_get",
          "sigar_nfs_server_v2_get", "sigar_nfs_client_v3_get", "sigar_nfs_server_v3_get"} |-> ""]
  @@ Common!Api

-----------------------------------------------------------------------------
(* Where the code departs from the properties of SigarCalls.               *)

\* The routing table that could not be read is not freed (aix_sigar.c:1553).
Leaks == Common!IfConfLeaks \cup {<<"sigar_net_route_list_get", "rt_buf">>}

\* The process information is read after a failed call for the same pid
\* (732); errors of getprocs, getuser and loadquery are missed (701, 969,
\* 1025); the offsets of the ARP table are not checked (1995); the
\* interfaces' buffer may be gone (sigar.c:1587).
Faults ==
  Common!IfConfFaults \cup
  ({"sigar_proc_mem_get", "sigar_proc_cumulative_disk_io_get", "sigar_proc_cred_get",
    "sigar_proc_time_get", "sigar_proc_state_get"} \X {"procsinfo"}) \cup
  ({"sigar_proc_modules_local_get", "sigar_proc_modules_get(self)"} \X {"ldinfo"}) \cup
  {<<"sigar_os_proc_list_get", "info">>, <<"sigar_proc_fd_get", "uinfo">>,
   <<"sigar_arp_list_get", "koffsets">>, <<"hwaddr_lookup", "ifconf_buf">>}

\* procsinfo and koffsets hold nothing before they are read.
Dangles == {"ifconf_buf", "procsinfo", "koffsets"}
Kept == {}
==============================================================================
