------------------------------- MODULE CallsHpux ------------------------------
(***************************************************************************)
(* The HP-UX functions: pstat, and the network's MIB through a descriptor  *)
(* that the handle keeps open.                                             *)
(***************************************************************************)
EXTENDS SigarStatements, TLC

Common == INSTANCE CallsCommon

\* What sigar_t owns here.  pst_status: the contents of pinfo; last_pid and
\* mib: null is -1.
Fields == Common!BaseFields \cup {"pinfo", "pst_status", "last_pid", "mib"}

sigar_os_open == <<Alloc("sigar"), Null("last_pid"), Null("pinfo"), Null("mib")>> \o OK
sigar_os_close == <<Release("pinfo"), Release("mib"), Free("sigar")>> \o OK

-----------------------------------------------------------------------------
(* The system.                                                             *)

sigar_mem_get == OK
sigar_swap_get == <<While(<< >>)>> \o OK
sigar_cpu_get == OK
sigar_cpu_list_get ==
  <<Do("sigar_cpu_list_create"), While(<<Try(<<Continue>>), Grow("sigar_cpu_list_grow")>>)>> \o OK
sigar_cpu_info_list_get ==
  <<Do("sigar_cpu_info_list_create"), While(<<Try(<<Continue>>), Grow("sigar_cpu_info_list_grow")>>)>> \o OK
sigar_uptime_get == OK
sigar_loadavg_get == OK
sigar_system_stats_get == NotImpl
sigar_os_sys_info_get == OK
sigar_sys_info_get_uuid == NotImpl
sigar_os_is_in_container == OK

-----------------------------------------------------------------------------
(* Processes.                                                              *)

sigar_os_proc_list_get == <<While(<<Grow("sigar_proc_list_grow")>>), When(Fail)>> \o OK

\* A second call for the pid of the last one returns at once, also when that
\* one failed.
sigar_pstat_getproc ==
  <<Lazy("pinfo"), IfNull("last_pid", << >>, <<When(OK)>>), Set("last_pid"),
    Try(Fail), Set("pst_status")>> \o OK

PstatGet == <<Call("sigar_pstat_getproc", PassOn), Use("pst_status")>> \o OK
sigar_proc_mem_get == PstatGet
sigar_proc_cumulative_disk_io_get == PstatGet
sigar_proc_cred_get == PstatGet
sigar_proc_time_get == PstatGet
sigar_proc_state_get == PstatGet
sigar_os_proc_args_get == <<Try(Fail), While(<<Grow("sigar_proc_args_grow")>>)>> \o OK
sigar_proc_env_get == NotImpl
sigar_proc_fd_get == <<Try(Fail), While(<< >>), Try(Fail)>> \o OK
sigar_proc_exe_get == <<When(NotImpl), Do("sigar_elf_file_guess_arch")>> \o OK
sigar_proc_modules_get == NotImpl
sigar_thread_cpu_get == <<If(NotImpl, OK)>>
sigar_proc_port_get == NotImpl

-----------------------------------------------------------------------------
(* File systems.                                                           *)

sigar_file_system_list_get ==
  <<Get("mnttab", Fail), Do("sigar_file_system_list_create"),
    While(<<When(<<Continue>>), Grow("sigar_file_system_list_grow")>>), Free("mnttab")>> \o OK

\* fslist is not destroyed.
create_fsdev_cache ==
  <<Var("fslist"), CallOn("sigar_file_system_list_get", "fslist", PassOn), Alloc("fsdev"),
    While(<<Use("fslist"), When(<<Continue>>), Use("fsdev")>>)>> \o OK
sigar_disk_usage_get == NotImpl
sigar_file_system_usage_get ==
  <<Call("sigar_statvfs", PassOn), IfNull("fsdev", <<Call("create_fsdev_cache", OK)>>, << >>),
    Try(OK), Use("fsdev")>> \o OK

-----------------------------------------------------------------------------
(* The network.                                                            *)

sigar_get_mib_info == <<IfNull("mib", <<Get("mib", Fail)>>, << >>), Use("mib"), Try(Fail)>> \o OK
sigar_get_physical_stat ==
  <<Call("sigar_get_mib_info", PassOn), IfNull("ifconf_buf", <<Alloc("ifconf_buf")>>, <<Use("ifconf_buf")>>),
    Try(Fail)>> \o OK
sigar_if_indextoname ==
  <<Call("sigar_get_physical_stat", Fail), While(<<Use("ifconf_buf"), When(OK)>>)>> \o Fail
get_mib_ifstat == sigar_if_indextoname

\* A table of the MIB: its size, then its entries; each of them is handled.
Table(size, create, each) ==
  <<Call("sigar_get_mib_info", PassOn)>> \o size
  \o <<Alloc("entries"), Call("sigar_get_mib_info", <<Free("entries")>> \o PassOn)>> \o create
  \o <<While(<<Use("entries")>> \o each), Free("entries")>> \o OK
sigar_net_route_list_get ==
  Table(<< >>, <<Do("sigar_net_route_list_create")>>,
        <<Grow("sigar_net_route_list_grow"), Do("sigar_if_indextoname")>>)
sigar_arp_list_get ==
  Table(<< >>, <<Do("sigar_arp_list_create")>>, <<Grow("sigar_arp_list_grow"), Do("sigar_if_indextoname")>>)

sigar_net_interface_stat_get == <<Call("get_mib_ifstat", PassOn)>> \o OK
sigar_net_interface_ipv6_config_get == <<Get("if_sock6", Fail), Free("if_sock6")>> \o OK

net_conn_get_udp_listen(add_connection) ==
  Table(<<When(Fail)>>, << >>, <<Call(add_connection, <<Break>>)>>)
net_conn_get_udp(listen) == <<When(ReturnCall(listen))>> \o OK
net_conn_get_tcp(add_connection) ==
  Table(<<When(Fail)>>, << >>, <<When(<<Continue>>), Call(add_connection, <<Break>>)>>)
sigar_net_connection_walk(tcp, udp) == <<When(<<Call(tcp, PassOn)>>), When(<<Call(udp, PassOn)>>)>> \o OK
sigar_net_listeners_get ==
  <<Call("sigar_net_connection_walk(list)", PassOn), While(<<Use("out"), Do("sigar_proc_port_get")>>)>> \o OK
sigar_tcp_get == <<While(<<Do("sigar_get_mib_info")>>)>> \o OK
sigar_nfs_client_v2_get == NotImpl
sigar_nfs_server_v2_get == NotImpl
sigar_nfs_client_v3_get == NotImpl
sigar_nfs_server_v3_get == NotImpl

-----------------------------------------------------------------------------
(* The functions by name.                                                  *)

Fns ==
  [sigar_os_open |-> sigar_os_open, sigar_os_close |-> sigar_os_close, sigar_mem_get |-> sigar_mem_get,
   sigar_swap_get |-> sigar_swap_get, sigar_cpu_get |-> sigar_cpu_get,
   sigar_cpu_list_get |-> sigar_cpu_list_get, sigar_cpu_info_list_get |-> sigar_cpu_info_list_get,
   sigar_uptime_get |-> sigar_uptime_get, sigar_loadavg_get |-> sigar_loadavg_get,
   sigar_system_stats_get |-> sigar_system_stats_get, sigar_os_sys_info_get |-> sigar_os_sys_info_get,
   sigar_sys_info_get_uuid |-> sigar_sys_info_get_uuid,
   sigar_os_is_in_container |-> sigar_os_is_in_container,
   sigar_os_proc_list_get |-> sigar_os_proc_list_get, sigar_pstat_getproc |-> sigar_pstat_getproc,
   sigar_proc_mem_get |-> sigar_proc_mem_get,
   sigar_proc_cumulative_disk_io_get |-> sigar_proc_cumulative_disk_io_get,
   sigar_proc_cred_get |-> sigar_proc_cred_get, sigar_proc_time_get |-> sigar_proc_time_get,
   sigar_proc_state_get |-> sigar_proc_state_get, sigar_os_proc_args_get |-> sigar_os_proc_args_get,
   sigar_proc_env_get |-> sigar_proc_env_get, sigar_proc_fd_get |-> sigar_proc_fd_get,
   sigar_proc_exe_get |-> sigar_proc_exe_get, sigar_proc_modules_get |-> sigar_proc_modules_get,
   sigar_thread_cpu_get |-> sigar_thread_cpu_get, sigar_proc_port_get |-> sigar_proc_port_get,
   sigar_file_system_list_get |-> sigar_file_system_list_get, create_fsdev_cache |-> create_fsdev_cache,
   sigar_disk_usage_get |-> sigar_disk_usage_get,
   sigar_file_system_usage_get |-> sigar_file_system_usage_get,
   sigar_get_mib_info |-> sigar_get_mib_info, sigar_get_physical_stat |-> sigar_get_physical_stat,
   sigar_if_indextoname |-> sigar_if_indextoname, get_mib_ifstat |-> get_mib_ifstat,
   sigar_net_route_list_get |-> sigar_net_route_list_get, sigar_arp_list_get |-> sigar_arp_list_get,
   sigar_net_interface_stat_get |-> sigar_net_interface_stat_get,
   sigar_net_interface_ipv6_config_get |-> sigar_net_interface_ipv6_config_get,
   sigar_net_listeners_get |-> sigar_net_listeners_get, sigar_tcp_get |-> sigar_tcp_get,
   sigar_nfs_client_v2_get |-> sigar_nfs_client_v2_get,
   sigar_nfs_server_v2_get |-> sigar_nfs_server_v2_get,
   sigar_nfs_client_v3_get |-> sigar_nfs_client_v3_get,
   sigar_nfs_server_v3_get |-> sigar_nfs_server_v3_get]
  @@ "net_conn_get_udp_listen(list)" :> net_conn_get_udp_listen("net_connection_list_walker")
  @@ "net_conn_get_udp(list)" :> net_conn_get_udp("net_conn_get_udp_listen(list)")
  @@ "net_conn_get_tcp(list)" :> net_conn_get_tcp("net_connection_list_walker")
  @@ "sigar_net_connection_walk(list)" :>
       sigar_net_connection_walk("net_conn_get_tcp(list)", "net_conn_get_udp(list)")
  @@ "net_conn_get_udp_listen(stat)" :> net_conn_get_udp_listen("net_stat_walker")
  @@ "net_conn_get_udp(stat)" :> net_conn_get_udp("net_conn_get_udp_listen(stat)")
  @@ "net_conn_get_tcp(stat)" :> net_conn_get_tcp("net_stat_walker")
  @@ "sigar_net_connection_walk(stat)" :>
       sigar_net_connection_walk("net_conn_get_tcp(stat)", "net_conn_get_udp(stat)")
  @@ "net_conn_get_udp_listen(port)" :> net_conn_get_udp_listen("net_stat_port_walker")
  @@ "net_conn_get_udp(port)" :> net_conn_get_udp("net_conn_get_udp_listen(port)")
  @@ "net_conn_get_tcp(port)" :> net_conn_get_tcp("net_stat_port_walker")
  @@ "sigar_net_connection_walk(port)" :>
       sigar_net_connection_walk("net_conn_get_tcp(port)", "net_conn_get_udp(port)")
  @@ "sigar_proc_modules_get(self)" :> sigar_proc_modules_get
  @@ "sigar_net_listeners_get(list)" :> sigar_net_listeners_get
  @@ "hwaddr_lookup" :> Common!hwaddr_arp_lookup
  @@ Common!Fns

Api ==
  [f \in {"sigar_system_stats_get", "sigar_os_is_in_container", "sigar_proc_modules_get",
          "sigar_proc_cumulative_disk_io_get", "sigar_thread_cpu_get", "sigar_nfs_client_v2_get",
          "sigar_nfs_server_v2_get", "sigar_nfs_client_v3_get", "sigar_nfs_server_v3_get"} |-> ""]
  @@ Common!Api

-----------------------------------------------------------------------------
(* Where the code departs from the properties of SigarCalls.               *)

\* The list of file systems is not destroyed (hpux_sigar.c:652).
Leaks == Common!Leaks \cup Common!IfConfLeaks \cup {<<"create_fsdev_cache", "fslist">>}

\* The process information is read after a failed call for the same pid
\* (269); the buffer that sigar_net_interface_list_get left freed is used
\* again (788).
Faults ==
  Common!IfConfFaults \cup
  ({"sigar_proc_mem_get", "sigar_proc_cumulative_disk_io_get", "sigar_proc_cred_get",
    "sigar_proc_time_get", "sigar_proc_state_get"} \X {"pst_status"}) \cup
  {<<"sigar_get_physical_stat", "ifconf_buf">>}

\* pst_status holds nothing before the first read that succeeds.
Dangles == {"ifconf_buf", "pst_status"}
Kept == {}
==============================================================================
