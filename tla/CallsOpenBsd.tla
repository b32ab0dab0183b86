----------------------------- MODULE CallsOpenBsd -----------------------------
(***************************************************************************)
(* The OpenBSD functions.  The file is a copy of FreeBSD's; what it does   *)
(* as the original is taken from CallsFreeBsd.                             *)
(***************************************************************************)
EXTENDS SigarStatements, TLC

Common == INSTANCE CallsCommon
BSD == INSTANCE CallsFreeBsd

Fields == BSD!Fields

sigar_os_open == BSD!sigar_os_open
sigar_os_close == BSD!sigar_os_close
get_koffsets == BSD!get_koffsets
kread == BSD!kread

-----------------------------------------------------------------------------
(* The system.                                                             *)

sigar_vmstat == <<Try(Fail)>> \o OK
sigar_mem_get == <<Try(Fail), Try(Fail), Call("sigar_vmstat", PassOn)>> \o OK
sigar_swap_get == <<Call("sigar_vmstat", PassOn)>> \o OK
sigar_cpu_get == <<Try(Fail)>> \o OK

\* HAVE_KERN_CP_TIMES is not defined.
sigar_cpu_list_get ==
  <<Do("sigar_cpu_list_create"), Use("out"), Call("sigar_cpu_get", PassOn),
    While(<<Grow("sigar_cpu_list_grow")>>)>> \o OK
sigar_cpu_info_list_get == BSD!sigar_cpu_info_list_get
sigar_uptime_get == OK
sigar_loadavg_get == OK
sigar_system_stats_get == NotImpl
sigar_os_sys_info_get == OK
sigar_sys_info_get_uuid == NotImpl
sigar_os_is_in_container == OK

-----------------------------------------------------------------------------
(* Processes.                                                              *)

sigar_os_proc_list_get ==
  <<IfNull("kmem", Fail, << >>), Use("kmem"), BSD!kvm_getprocs("proc"),
    While(<<Use("proc"), When(<<Continue>>), When(<<Continue>>), Grow("sigar_proc_list_grow")>>)>> \o OK
sigar_get_pinfo == BSD!sigar_get_pinfo
sigar_proc_mem_get == BSD!sigar_proc_mem_get
sigar_proc_cumulative_disk_io_get == NotImpl
sigar_proc_cred_get == BSD!sigar_proc_cred_get
sigar_proc_time_get == <<Call("sigar_get_pinfo", PassOn), Use("kinfo")>> \o OK
sigar_proc_state_get ==
  <<Call("sigar_get_pinfo", << >>), Use("pinfo"), IfOk(<< >>, PassOn), Use("kinfo")>> \o OK
sigar_os_proc_args_get == BSD!sigar_os_proc_args_get
sigar_proc_env_get == BSD!sigar_proc_env_get
sigar_proc_fd_get == NotImpl
sigar_proc_exe_get == BSD!sigar_proc_exe_get
sigar_proc_modules_get == BSD!sigar_proc_modules_get
sigar_thread_cpu_get == OK
sigar_proc_port_get == NotImpl

-----------------------------------------------------------------------------
(* File systems.                                                           *)

sigar_file_system_list_get == BSD!sigar_file_system_list_get
sigar_disk_usage_get == NotImpl
sigar_file_system_usage_get == BSD!sigar_file_system_usage_get

-----------------------------------------------------------------------------
(* The network.                                                            *)

sigar_net_route_list_get ==
  <<Try(Fail), Alloc("rt_buf"), Try(<<Free("rt_buf")>> \o Fail), Do("sigar_net_route_list_create"),
    While(<<Use("rt_buf"), When(<<Continue>>), When(<<Continue>>), Grow("sigar_net_route_list_grow")>>),
    Free("rt_buf")>> \o OK
sigar_arp_list_get == BSD!sigar_arp_list_get

sigar_ifmsg_init == BSD!sigar_ifmsg_init
has_ifaddr == BSD!has_ifaddr
sigar_ifmsg_iter(type) == BSD!sigar_ifmsg_iter(type)
sigar_net_interface_list_get == BSD!sigar_net_interface_list_get
sigar_net_interface_stat_get == BSD!sigar_net_interface_stat_get
sigar_net_interface_config_get(name) == BSD!sigar_net_interface_config_get(name)
sigar_net_interface_ipv6_config_get == BSD!sigar_net_interface_ipv6_config_get

\* Its first statement: the rest of the function is never reached.
net_connection_get == NotImpl
sigar_net_connection_walk(get) == BSD!sigar_net_connection_walk(get)
sigar_net_listeners_get == BSD!sigar_net_listeners_get
sigar_tcp_get == <<Call("kread", PassOn), Do("sigar_tcp_curr_estab")>> \o OK

get_nfsstats == <<Try(Fail)>> \o OK
sigar_nfs_client_v2_get == NotImpl
sigar_nfs_server_v2_get == NotImpl
sigar_nfs_client_v3_get == <<Call("get_nfsstats", PassOn)>> \o OK
sigar_nfs_server_v3_get == <<Call("get_nfsstats", PassOn)>> \o OK

-----------------------------------------------------------------------------
(* The functions by name.                                                  *)

Fns ==
  [sigar_os_open |-> sigar_os_open, sigar_os_close |-> sigar_os_close, get_koffsets |-> get_koffsets,
   kread |-> kread, sigar_vmstat |-> sigar_vmstat, sigar_mem_get |-> sigar_mem_get,
   sigar_swap_get |-> sigar_swap_get, sigar_cpu_get |-> sigar_cpu_get,
   sigar_cpu_list_get |-> sigar_cpu_list_get, sigar_cpu_info_list_get |-> sigar_cpu_info_list_get,
   sigar_uptime_get |-> sigar_uptime_get, sigar_loadavg_get |-> sigar_loadavg_get,
   sigar_system_stats_get |-> sigar_system_stats_get, sigar_os_sys_info_get |-> sigar_os_sys_info_get,
   sigar_sys_info_get_uuid |-> sigar_sys_info_get_uuid,
   sigar_os_is_in_container |-> sigar_os_is_in_container,
   sigar_os_proc_list_get |-> sigar_os_proc_list_get, sigar_get_pinfo |-> sigar_get_pinfo,
   sigar_proc_mem_get |-> sigar_proc_mem_get,
   sigar_proc_cumulative_disk_io_get |-> sigar_proc_cumulative_disk_io_get,
   sigar_proc_cred_get |-> sigar_proc_cred_get, sigar_proc_time_get |-> sigar_proc_time_get,
   sigar_proc_state_get |-> sigar_proc_state_get, sigar_os_proc_args_get |-> sigar_os_proc_args_get,
   sigar_proc_env_get |-> sigar_proc_env_get, sigar_proc_fd_get |-> sigar_proc_fd_get,
   sigar_proc_exe_get |-> sigar_proc_exe_get, sigar_proc_modules_get |-> sigar_proc_modules_get,
   sigar_thread_cpu_get |-> sigar_thread_cpu_get, sigar_proc_port_get |-> sigar_proc_port_get,
   sigar_file_system_list_get |-> sigar_file_system_list_get,
   sigar_disk_usage_get |-> sigar_disk_usage_get,
   sigar_file_system_usage_get |-> sigar_file_system_usage_get,
   sigar_net_route_list_get |-> sigar_net_route_list_get, sigar_arp_list_get |-> sigar_arp_list_get,
   sigar_ifmsg_init |-> sigar_ifmsg_init, has_ifaddr |-> has_ifaddr,
   sigar_net_interface_list_get |-> sigar_net_interface_list_get,
   sigar_net_interface_stat_get |-> sigar_net_interface_stat_get,
   sigar_net_interface_ipv6_config_get |-> sigar_net_interface_ipv6_config_get,
   net_connection_get |-> net_connection_get, sigar_net_listeners_get |-> sigar_net_listeners_get,
   sigar_tcp_get |-> sigar_tcp_get, get_nfsstats |-> get_nfsstats,
   sigar_nfs_client_v2_get |-> sigar_nfs_client_v2_get,
   sigar_nfs_server_v2_get |-> sigar_nfs_server_v2_get,
   sigar_nfs_client_v3_get |-> sigar_nfs_client_v3_get,
   sigar_nfs_server_v3_get |-> sigar_nfs_server_v3_get]
  @@ "sigar_proc_modules_get(self)" :> ReturnCall("sigar_dlinfo_modules(self)")
  @@ "sigar_ifmsg_iter(LIST)" :> sigar_ifmsg_iter("IFMSG_ITER_LIST")
  @@ "sigar_ifmsg_iter(GET)" :> sigar_ifmsg_iter("IFMSG_ITER_GET")
  @@ "sigar_net_interface_config_get" :> sigar_net_interface_config_get("NULL")
  @@ "sigar_net_interface_config_get(name)" :> sigar_net_interface_config_get("name")
  @@ [f \in {"sigar_net_connection_walk(list)", "sigar_net_connection_walk(stat)",
             "sigar_net_connection_walk(port)", "sigar_net_connection_walk(estab)"} |->
        sigar_net_connection_walk("net_connection_get")]
  @@ "sigar_net_listeners_get(list)" :> sigar_net_listeners_get
  @@ Common!Fns

Api == BSD!Api

-----------------------------------------------------------------------------
(* Where the code departs from the properties of SigarCalls.               *)

\* The list of CPUs is left when they could not be read (openbsd_sigar.c:338).
Leaks == Common!Leaks \cup {<<"sigar_cpu_list_get", "list">>}

\* The process information is read after a failed call for the same pid
\* (424), the interface messages after a failed read (1057), the process
\* table whether or not there is one (386); an empty ARP table returns
\* SIGAR_OK and no list (1715).
Faults ==
  ({"sigar_proc_mem_get", "sigar_proc_cred_get", "sigar_proc_time_get", "sigar_proc_state_get"} \X {"kinfo"})
  \cup {<<"sigar_os_proc_list_get", "proc">>, <<"sigar_ifmsg_iter(GET)", "ifmsgs">>,
        <<"sigar_arp_list_destroy", "out">>}

\* kinfo and ifmsgs hold nothing before the first read that succeeds.
Dangles == {"kinfo", "ifmsgs"}
Kept == {}
==============================================================================
