----------------------------- MODULE CallsFreeBsd -----------------------------
(***************************************************************************)
(* The FreeBSD functions: sysctl, the kernel's memory through kvm, and the *)
(* interface messages, which the handle keeps in ifconf_buf.  What the     *)
(* version of the system decides at compile time is left open.             *)
(***************************************************************************)
EXTENDS SigarStatements, TLC

Common == INSTANCE CallsCommon

\* What sigar_t owns here.  kinfo and ifmsgs: the contents of pinfo and of
\* ifconf_buf; last_pid: null is -1.
Fields == Common!BaseFields \cup {"kmem", "pinfo", "kinfo", "last_pid", "ifmsgs"}

sigar_os_open ==
  <<Try(Fail), Try(Fail), Alloc("sigar"), Get("kmem", << >>), Do("get_koffsets"), Null("last_pid"),
    Null("pinfo")>> \o OK
sigar_os_close == <<Release("pinfo"), Release("kmem"), Free("sigar")>> \o OK

get_koffsets == <<IfNull("kmem", Fail, << >>), Use("kmem")>> \o OK
kread == <<IfNull("kmem", Fail, << >>), Try(Fail)>> \o OK

-----------------------------------------------------------------------------
(* The system.                                                             *)

sigar_vmstat == <<Do("kread")>> \o OK
sigar_mem_get == <<Try(Fail), Try(Fail), Do("sigar_vmstat")>> \o OK
getswapinfo_sysctl == <<When(NotImpl), Try(Fail), Try(Fail), While(<<Try(Fail)>>)>> \o OK
sigar_swap_get ==
  <<Call("getswapinfo_sysctl", <<IfNull("kmem", Fail, << >>), Use("kmem"), Try(Fail)>>),
    When(OK), Do("sigar_vmstat")>> \o OK
sigar_cpu_get == <<Let("OK"), Try(<<Call("kread", PassOn)>>)>> \o OK
sigar_cp_times_get ==
  <<Try(Fail), Alloc("times"),
    If(<<While(<<Use("times"), Grow("sigar_cpu_list_grow")>>), Let("OK")>>, <<Let("ERR")>>),
    Free("times"), ReturnStatus>>
sigar_cpu_list_get ==
  <<Do("sigar_cpu_list_create"), When(<<Call("sigar_cp_times_get", << >>), IfOk(OK, << >>)>>),
    Use("out"), Call("sigar_cpu_get", PassOn), While(<<Grow("sigar_cpu_list_grow")>>)>> \o OK
sigar_cpu_info_list_get ==
  <<Do("sigar_cpu_info_list_create"), While(<<Grow("sigar_cpu_info_list_grow")>>)>> \o OK
sigar_uptime_get == OK
sigar_loadavg_get == OK
sigar_system_stats_get == NotImpl
sigar_os_sys_info_get == OK
sigar_sys_info_get_uuid == NotImpl
sigar_os_is_in_container == OK

-----------------------------------------------------------------------------
(* Processes.                                                              *)

\* What it returns belongs to the descriptor of the kernel's memory.
kvm_getprocs(x) == If(<<Set(x)>>, <<Null(x)>>)

sigar_os_proc_list_get ==
  LET each == While(<<Use("proc"), When(<<Continue>>), Grow("sigar_proc_list_grow")>>)
  IN <<If(<<Try(Fail), Alloc("proc"), Try(<<Free("proc")>> \o Fail), each, Free("proc")>>,
          <<IfNull("kmem", Fail, << >>), Use("kmem"), kvm_getprocs("proc"), each>>)>> \o OK

\* A second call for the pid of the last one returns at once, also when that
\* one failed.
sigar_get_pinfo ==
  <<Lazy("pinfo"), IfNull("last_pid", << >>, <<When(OK)>>), Set("last_pid"),
    Try(Fail), Set("kinfo")>> \o OK

sigar_proc_mem_get == <<Call("sigar_get_pinfo", PassOn), Use("kinfo")>> \o OK
sigar_proc_cumulative_disk_io_get == NotImpl
sigar_proc_cred_get == <<Call("sigar_get_pinfo", PassOn), Use("kinfo")>> \o OK
sigar_proc_time_get ==
  <<Call("sigar_get_pinfo", PassOn), Use("kinfo"),
    When(<<IfNull("kmem", Fail, << >>), Call("kread", PassOn)>>)>> \o OK
proc_fd_get_count == <<Call("sigar_proc_fd_get", NotImpl)>> \o OK
sigar_proc_state_get ==
  <<Call("sigar_get_pinfo", << >>), Use("pinfo"), IfOk(<< >>, PassOn), Use("kinfo"),
    Do("proc_fd_get_count")>> \o OK

sigar_os_proc_args_get == <<Try(Fail), When(OK), While(<<Grow("sigar_proc_args_grow")>>)>> \o OK
sigar_proc_env_get ==
  <<IfNull("kmem", Fail, << >>), Use("kmem"), Try(Fail), Try(Fail),
    While(<<When(<<Break>>), When(<<Break>>)>>)>> \o OK
sigar_proc_fd_get ==
  <<IfNull("kmem", Fail, << >>), Call("sigar_get_pinfo", PassOn), Use("kinfo"), Call("kread", PassOn)>> \o OK
sigar_proc_exe_get == <<Do("sigar_elf_file_guess_arch")>> \o OK
sigar_proc_modules_get == <<If(ReturnCall("sigar_dlinfo_modules"), NotImpl)>>
sigar_thread_cpu_get == OK

\* Before version 8: the socket of the port, then the process that has it.
sigar_proc_port_get ==
  LET fail == <<Free("ofiles")>> \o PassOn
  IN <<When(NotImpl), IfNull("kmem", Fail, << >>), Use("kmem"), Try(Fail), Call("kread", PassOn),
       While(<<Call("kread", PassOn), When(<<Continue>>), When(<<Break>>)>>), When(Fail), Try(Fail),
       While(<<When(<<Continue>>),
               When(<<Call("kread", PassOn), Get("ofiles", Fail), Call("kread", fail),
                      While(<<When(<<Continue>>), Use("ofiles"), Call("kread", fail), When(<<Continue>>),
                              When(<<Free("ofiles")>> \o OK)>>),
                      Free("ofiles")>>)>>)>> \o Fail

-----------------------------------------------------------------------------
(* File systems.                                                           *)

sigar_file_system_list_get ==
  <<Try(Fail), Alloc("fs"), Try(<<Free("fs")>> \o Fail), Do("sigar_file_system_list_create"),
    While(<<Use("fs"), When(<<Continue>>), When(<<Continue>>), Grow("sigar_file_system_list_grow")>>),
    Free("fs")>> \o OK
sigar_disk_usage_get == <<Try(Fail)>> \o OK
sigar_file_system_usage_get == <<Call("sigar_statvfs", PassOn), Do("sigar_disk_usage_get")>> \o OK

-----------------------------------------------------------------------------
(* The network.                                                            *)

sigar_net_route_list_get ==
  <<Try(Fail), When(NotImpl), Alloc("rt_buf"), Try(<<Free("rt_buf")>> \o Fail),
    Do("sigar_net_route_list_create"),
    While(<<Use("rt_buf"), When(<<Continue>>), When(<<Continue>>), Grow("sigar_net_route_list_grow")>>),
    Free("rt_buf")>> \o OK

\* The list is not made when there is nothing to put in it.
sigar_arp_list_get ==
  <<Try(Fail), When(OK), Alloc("arp_buf"), Try(<<Free("arp_buf")>> \o Fail),
    Do("sigar_arp_list_create"), While(<<Grow("sigar_arp_list_grow"), Use("arp_buf")>>),
    Free("arp_buf")>> \o OK

\* The buffer only grows; its length counts as read when the read failed.
sigar_ifmsg_init ==
  <<Try(Fail), IfNull("ifconf_buf", <<Alloc("ifconf_buf")>>, <<When(<<Use("ifconf_buf")>>)>>),
    Try(Fail), Set("ifmsgs")>> \o OK
has_ifaddr == <<Get("if_sock", Fail), If(<<Let("OK")>>, <<Let("ERR")>>), Free("if_sock"), ReturnStatus>>
sigar_ifmsg_iter(type) ==
  LET list == type = "IFMSG_ITER_LIST"
  IN (IF list THEN <<Do("sigar_net_interface_list_create")>> ELSE << >>)
     \o <<While(<<Use("ifmsgs"), When(<<Break>>), When(<<Continue>>)>>
                \o IF list
                   THEN <<When(<<Call("has_ifaddr", <<Continue>>)>>), When(<<Continue>>),
                          Grow("sigar_net_interface_list_grow")>>
                   ELSE <<When(OK)>>)>>
     \o (IF list THEN OK ELSE Fail)

sigar_net_interface_list_get ==
  <<Call("sigar_ifmsg_init", PassOn)>> \o ReturnCall("sigar_ifmsg_iter(LIST)")
sigar_net_interface_stat_get ==
  <<Call("sigar_ifmsg_init", PassOn), Call("sigar_ifmsg_iter(GET)", PassOn), Use("ifmsgs")>> \o OK

\* name is "NULL" for the primary interface.  Messages once read serve all
\* later calls.
sigar_net_interface_config_get(name) ==
  IF name = "NULL" THEN ReturnCall("sigar_net_interface_config_primary_get")
  ELSE <<IfNull("ifconf_buf", <<Call("sigar_ifmsg_init", PassOn)>>, << >>),
         Call("sigar_ifmsg_iter(GET)", PassOn), Get("if_sock", Fail), Use("ifmsgs"), Free("if_sock"),
         Do("sigar_net_interface_ipv6_config_get")>> \o OK
sigar_net_interface_ipv6_config_get ==
  <<Get("addrs", Fail), If(<<Let("OK")>>, <<Let("ENOENT")>>), Free("addrs"), ReturnStatus>>

net_connection_get(add_connection) ==
  <<Try(Fail), Get("pcb_buf", Fail), Try(<<Free("pcb_buf")>> \o Fail),
    While(<<Use("pcb_buf"), When(<<Continue>>), When(<<Call(add_connection, <<Break>>)>>)>>),
    Free("pcb_buf")>> \o OK
sigar_net_connection_walk(get) == <<When(<<Call(get, PassOn)>>), When(<<Call(get, PassOn)>>)>> \o OK
sigar_net_listeners_get ==
  <<Call("sigar_net_connection_walk(list)", PassOn), While(<<Use("out"), Do("sigar_proc_port_get")>>)>> \o OK
sigar_tcp_get == <<Try(Fail), Do("sigar_tcp_curr_estab")>> \o OK

get_nfsstats == <<Try(Fail)>> \o OK
sigar_nfs_client_v2_get == NotImpl
sigar_nfs_server_v2_get == NotImpl
sigar_nfs_client_v3_get == <<If(<<Try(Fail)>>, <<Call("get_nfsstats", PassOn)>>)>> \o OK
sigar_nfs_server_v3_get == <<If(<<Try(Fail)>>, <<Call("get_nfsstats", PassOn)>>)>> \o OK

-----------------------------------------------------------------------------
(* The functions by name.                                                  *)

Fns ==
  [sigar_os_open |-> sigar_os_open, sigar_os_close |-> sigar_os_close, get_koffsets |-> get_koffsets,
   kread |-> kread, sigar_vmstat |-> sigar_vmstat, sigar_mem_get |-> sigar_mem_get,
   getswapinfo_sysctl |-> getswapinfo_sysctl, sigar_swap_get |-> sigar_swap_get,
   sigar_cpu_get |-> sigar_cpu_get, sigar_cp_times_get |-> sigar_cp_times_get,
   sigar_cpu_list_get |-> sigar_cpu_list_get, sigar_cpu_info_list_get |-> sigar_cpu_info_list_get,
   sigar_uptime_get |-> sigar_uptime_get, sigar_loadavg_get |-> sigar_loadavg_get,
   sigar_system_stats_get |-> sigar_system_stats_get, sigar_os_sys_info_get |-> sigar_os_sys_info_get,
   sigar_sys_info_get_uuid |-> sigar_sys_info_get_uuid,
   sigar_os_is_in_container |-> sigar_os_is_in_container,
   sigar_os_proc_list_get |-> sigar_os_proc_list_get, sigar_get_pinfo |-> sigar_get_pinfo,
   sigar_proc_mem_get |-> sigar_proc_mem_get,
   sigar_proc_cumulative_disk_io_get |-> sigar_proc_cumulative_disk_io_get,
   sigar_proc_cred_get |-> sigar_proc_cred_get, sigar_proc_time_get |-> sigar_proc_time_get,
   proc_fd_get_count |-> proc_fd_get_count, sigar_proc_state_get |-> sigar_proc_state_get,
   sigar_os_proc_args_get |-> sigar_os_proc_args_get, sigar_proc_env_get |-> sigar_proc_env_get,
   sigar_proc_fd_get |-> sigar_proc_fd_get, sigar_proc_exe_get |-> sigar_proc_exe_get,
   sigar_proc_modules_get |-> sigar_proc_modules_get, sigar_thread_cpu_get |-> sigar_thread_cpu_get,
   sigar_proc_port_get |-> sigar_proc_port_get,
   sigar_file_system_list_get |-> sigar_file_system_list_get,
   sigar_disk_usage_get |-> sigar_disk_usage_get,
   sigar_file_system_usage_get |-> sigar_file_system_usage_get,
   sigar_net_route_list_get |-> sigar_net_route_list_get, sigar_arp_list_get |-> sigar_arp_list_get,
   sigar_ifmsg_init |-> sigar_ifmsg_init, has_ifaddr |-> has_ifaddr,
   sigar_net_interface_list_get |-> sigar_net_interface_list_get,
   sigar_net_interface_stat_get |-> sigar_net_interface_stat_get,
   sigar_net_interface_ipv6_config_get |-> sigar_net_interface_ipv6_config_get,
   sigar_net_listeners_get |-> sigar_net_listeners_get, sigar_tcp_get |-> sigar_tcp_get,
   get_nfsstats |-> get_nfsstats, sigar_nfs_client_v2_get |-> sigar_nfs_client_v2_get,
   sigar_nfs_server_v2_get |-> sigar_nfs_server_v2_get,
   sigar_nfs_client_v3_get |-> sigar_nfs_client_v3_get,
   sigar_nfs_server_v3_get |-> sigar_nfs_server_v3_get]
  @@ "sigar_proc_modules_get(self)" :> ReturnCall("sigar_dlinfo_modules(self)")
  @@ "sigar_ifmsg_iter(LIST)" :> sigar_ifmsg_iter("IFMSG_ITER_LIST")
  @@ "sigar_ifmsg_iter(GET)" :> sigar_ifmsg_iter("IFMSG_ITER_GET")
  @@ "sigar_net_interface_config_get" :> sigar_net_interface_config_get("NULL")
  @@ "sigar_net_interface_config_get(name)" :> sigar_net_interface_config_get("name")
  @@ "net_connection_get(list)" :> net_connection_get("net_connection_list_walker")
  @@ "net_connection_get(stat)" :> net_connection_get("net_stat_walker")
  @@ "net_connection_get(port)" :> net_connection_get("net_stat_port_walker")
  @@ "net_connection_get(estab)" :> net_connection_get("tcp_curr_estab_count")
  @@ "sigar_net_connection_walk(list)" :> sigar_net_connection_walk("net_connection_get(list)")
  @@ "sigar_net_connection_walk(stat)" :> sigar_net_connection_walk("net_connection_get(stat)")
  @@ "sigar_net_connection_walk(port)" :> sigar_net_connection_walk("net_connection_get(port)")
  @@ "sigar_net_connection_walk(estab)" :> sigar_net_connection_walk("net_connection_get(estab)")
  @@ "sigar_net_listeners_get(list)" :> sigar_net_listeners_get
  @@ Common!Fns

Api ==
  [f \in {"sigar_system_stats_get", "sigar_os_is_in_container", "sigar_proc_modules_get",
          "sigar_proc_cumulative_disk_io_get", "sigar_thread_cpu_get", "sigar_nfs_client_v2_get",
          "sigar_nfs_server_v2_get", "sigar_nfs_client_v3_get", "sigar_nfs_server_v3_get"} |-> ""]
  @@ Common!Api

-----------------------------------------------------------------------------
(* Where the code departs from the properties of SigarCalls.               *)

\* The list of CPUs is left when they could not be read (freebsd_sigar.c:580).
Leaks == Common!Leaks \cup {<<"sigar_cpu_list_get", "list">>}

\* The process information is read after a failed call for the same pid
\* (710), the interface messages after a failed read (1429), the process
\* table whether or not there is one (678); an empty ARP table returns
\* SIGAR_OK and no list (2244).
Faults ==
  ({"sigar_proc_mem_get", "sigar_proc_cred_get", "sigar_proc_time_get", "sigar_proc_state_get",
    "sigar_proc_fd_get"} \X {"kinfo"}) \cup
  {<<"sigar_os_proc_list_get", "proc">>, <<"sigar_ifmsg_iter(GET)", "ifmsgs">>,
   <<"sigar_arp_list_destroy", "out">>}

\* kinfo and ifmsgs hold nothing before the first read that succeeds.
Dangles == {"kinfo", "ifmsgs"}
Kept == {}
==============================================================================
