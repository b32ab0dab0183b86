------------------------------ MODULE CallsNetBsd -----------------------------
(***************************************************************************)
(* The NetBSD functions.  The file still holds the code of Mac OS X and of *)
(* the other BSDs; what is modelled is what a NetBSD build compiles.       *)
(***************************************************************************)
EXTENDS SigarStatements, TLC

Common == INSTANCE CallsCommon
BSD == INSTANCE CallsFreeBsd
OpenBSD == INSTANCE CallsOpenBsd

Fields == BSD!Fields

sigar_os_open == BSD!sigar_os_open
sigar_os_close == BSD!sigar_os_close
get_koffsets == BSD!get_koffsets
kread == BSD!kread

-----------------------------------------------------------------------------
(* The system.                                                             *)

sigar_vmstat == OpenBSD!sigar_vmstat
sigar_mem_get == OpenBSD!sigar_mem_get
sigar_swap_get == OpenBSD!sigar_swap_get
sigar_cpu_get == OpenBSD!sigar_cpu_get
sigar_cpu_list_get == OpenBSD!sigar_cpu_list_get
sigar_cpu_info_list_get == BSD!sigar_cpu_info_list_get
sigar_uptime_get == OK
sigar_loadavg_get == OK
sigar_system_stats_get == NotImpl
sigar_os_sys_info_get == OK
sigar_sys_info_get_uuid == NotImpl
sigar_os_is_in_container == OK

-----------------------------------------------------------------------------
(* Processes.                                                              *)

sigar_os_proc_list_get ==
  <<Try(Fail), Alloc("proc"), Try(<<Free("proc")>> \o Fail),
    While(<<Use("proc"), When(<<Continue>>), When(<<Continue>>), Grow("sigar_proc_list_grow")>>),
    Free("proc")>> \o OK
sigar_get_pinfo == BSD!sigar_get_pinfo
sigar_proc_mem_get == BSD!sigar_proc_mem_get
sigar_proc_cumulative_disk_io_get == NotImpl
sigar_proc_cred_get == BSD!sigar_proc_cred_get
sigar_proc_time_get == OpenBSD!sigar_proc_time_get
sigar_proc_state_get == OpenBSD!sigar_proc_state_get
sigar_os_proc_args_get == BSD!sigar_os_proc_args_get
sigar_proc_env_get == BSD!sigar_proc_env_get
sigar_proc_fd_get == NotImpl
sigar_proc_exe_get == BSD!sigar_proc_exe_get
sigar_proc_modules_get == BSD!sigar_proc_modules_get
sigar_thread_cpu_get == NotImpl
sigar_proc_port_get == NotImpl

-----------------------------------------------------------------------------
(* File systems.                                                           *)

sigar_file_system_list_get == BSD!sigar_file_system_list_get
sigar_disk_usage_get == NotImpl
sigar_file_system_usage_get == BSD!sigar_file_system_usage_get

-----------------------------------------------------------------------------
(* The network.                                                            *)

sigar_net_route_list_get == OpenBSD!sigar_net_route_list_get
sigar_arp_list_get == BSD!sigar_arp_list_get

sigar_ifmsg_init == BSD!sigar_ifmsg_init
has_ifaddr == BSD!has_ifaddr
sigar_ifmsg_iter(type) == BSD!sigar_ifmsg_iter(type)
sigar_net_interface_list_get == BSD!sigar_net_interface_list_get
sigar_net_interface_stat_get == BSD!sigar_net_interface_stat_get
sigar_net_interface_config_get(name) == BSD!sigar_net_interface_config_get(name)
sigar_net_interface_ipv6_config_get == BSD!sigar_net_interface_ipv6_config_get

\* TCP only: the kernel's list of control blocks is followed block by block,
\* whether or not the block could be read.
net_connection_get(add_connection) ==
  <<When(NotImpl), Call("kread", PassOn),
    While(<<Var("inpcb"), When(<<Set("inpcb")>>), Use("inpcb"), Do("kread"),
            When(<<Do("kread"), When(<<Continue>>), Call(add_connection, <<Break>>)>>)>>)>> \o OK
sigar_net_connection_walk(get) == BSD!sigar_net_connection_walk(get)
sigar_net_listeners_get == BSD!sigar_net_listeners_get
sigar_tcp_get == <<If(<<Call("kread", PassOn)>>, <<Try(Fail)>>), Do("sigar_tcp_curr_estab")>> \o OK

get_nfsstats == <<Try(Fail)>> \o OK
sigar_nfs_client_v2_get == NotImpl
sigar_nfs_server_v2_get == NotImpl
sigar_nfs_client_v3_get == OpenBSD!sigar_nfs_client_v3_get
sigar_nfs_server_v3_get == OpenBSD!sigar_nfs_server_v3_get

-----------------------------------------------------------------------------
(* The functions by name.                                                  *)

Fns ==
  [sigar_os_open |-> sigar_os_open, sigar_os_close |-> sigar_os_close, get_koffsets |-> get_koffsets,
   kread |-> kread, sigar_vmstat |-> sigar_vmstat, sigar_mem_get |-> sigar_mem_get,
   sigar_swap_get |-> sigar_swap_get, sigar_cpu_get |-> sigar_cpu_get,
   sigar_cpu_list_get |-> sigar_cpu_list_get, sigar_cpu_info_list_get |-> sigar_cpu_info_list_get,
   sigar_uptime_get |-> sigar_uptime_get, sigar_loadavg_get |-> sigar_loadavg_get,
   sigar_system_stats_get |-> sigar_system_stats_get, sigar_os_sys_info_get |-> sigar_os_sys_info_get,
   sigar_sys_info_get_uuid |-> sigar_sys_info_get_uuid,
   sigar_os_is_in_container |-> sigar_os_is_in_container,
   sigar_os_proc_list_get |-> sigar_os_proc_list_get, sigar_get_pinfo |-> sigar_get_pinfo,
   sigar_proc_mem_get |-> sigar_proc_mem_get,
   sigar_proc_cumulative_disk_io_get |-> sigar_proc_cumulative_disk_io_get,
   sigar_proc_cred_get |-> sigar_proc_cred_get, sigar_proc_time_get |-> sigar_proc_time_get,
   sigar_proc_state_get |-> sigar_proc_state_get, sigar_os_proc_args_get |-> sigar_os_proc_args_get,
   sigar_proc_env_get |-> sigar_proc_env_get, sigar_proc_fd_get |-> sigar_proc_fd_get,
   sigar_proc_exe_get |-> sigar_proc_exe_get, sigar_proc_modules_get |-> sigar_proc_modules_get,
   sigar_thread_cpu_get |-> sigar_thread_cpu_get, sigar_proc_port_get |-> sigar_proc_port_get,
   sigar_file_system_list_get |-> sigar_file_system_list_get,
   sigar_disk_usage_get |-> sigar_disk_usage_get,
   sigar_file_system_usage_get |-> sigar_file_system_usage_get,
   sigar_net_route_list_get |-> sigar_net_route_list_get, sigar_arp_list_get |-> sigar_arp_list_get,
   sigar_ifmsg_init |-> sigar_ifmsg_init, has_ifaddr |-> has_ifaddr,
   sigar_net_interface_list_get |-> sigar_net_interface_list_get,
   sigar_net_interface_stat_get |-> sigar_net_interface_stat_get,
   sigar_net_interface_ipv6_config_get |-> sigar_net_interface_ipv6_config_get,
   sigar_net_listeners_get |-> sigar_net_listeners_get, sigar_tcp_get |-> sigar_tcp_get,
   get_nfsstats |-> get_nfsstats, sigar_nfs_client_v2_get |-> sigar_nfs_client_v2_get,
   sigar_nfs_server_v2_get |-> sigar_nfs_server_v2_get,
   sigar_nfs_client_v3_get |-> sigar_nfs_client_v3_get,
   sigar_nfs_server_v3_get |-> sigar_nfs_server_v3_get]
  @@ "sigar_proc_modules_get(self)" :> ReturnCall("sigar_dlinfo_modules(self)")
  @@ "sigar_ifmsg_iter(LIST)" :> sigar_ifmsg_iter("IFMSG_ITER_LIST")
  @@ "sigar_ifmsg_iter(GET)" :> sigar_ifmsg_iter("IFMSG_ITER_GET")
  @@ "sigar_net_interface_config_get" :> sigar_net_interface_config_get("NULL")
  @@ "sigar_net_interface_config_get(name)" :> sigar_net_interface_config_get("name")
  @@ "net_connection_get(list)" :> net_connection_get("net_connection_list_walker")
  @@ "net_connection_get(stat)" :> net_connection_get("net_stat_walker")
  @@ "net_connection_get(port)" :> net_connection_get("net_stat_port_walker")
  @@ "net_connection_get(estab)" :> net_connection_get("tcp_curr_estab_count")
  @@ "sigar_net_connection_walk(list)" :> sigar_net_connection_walk("net_connection_get(list)")
  @@ "sigar_net_connection_walk(stat)" :> sigar_net_connection_walk("net_connection_get(stat)")
  @@ "sigar_net_connection_walk(port)" :> sigar_net_connection_walk("net_connection_get(port)")
  @@ "sigar_net_connection_walk(estab)" :> sigar_net_connection_walk("net_connection_get(estab)")
  @@ "sigar_net_listeners_get(list)" :> sigar_net_listeners_get
  @@ Common!Fns

Api == BSD!Api

-----------------------------------------------------------------------------
(* Where the code departs from the properties of SigarCalls.               *)

\* The list of CPUs is left when they could not be read (netbsd_sigar.c:920).
Leaks == OpenBSD!Leaks

\* The process information is read after a failed call for the same pid
\* (1082), the interface messages after a failed read (2593), a control
\* block after a failed read (2994); an empty ARP table returns SIGAR_OK and
\* no list (3412).
Faults ==
  (OpenBSD!Faults \ {<<"sigar_os_proc_list_get", "proc">>})
  \cup ({"net_connection_get(list)", "net_connection_get(stat)", "net_connection_get(port)",
         "net_connection_get(estab)"} \X {"inpcb"})

\* kinfo and ifmsgs hold nothing before the first read that succeeds.
Dangles == {"kinfo", "ifmsgs"}
Kept == {}
==============================================================================
