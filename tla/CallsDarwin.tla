----------------------------- MODULE CallsDarwin ------------------------------
(***************************************************************************)
(* The macOS functions (not the iPhone's): the BSD sysctls, Mach calls and *)
(* libproc, which is loaded when the handle is opened.                     *)
(***************************************************************************)
EXTENDS SigarStatements, TLC

Common == INSTANCE CallsCommon
BSD == INSTANCE CallsFreeBsd

\* As on FreeBSD; psyms stands for the two functions looked up in libproc.
Fields ==
  Common!BaseFields \cup {"pinfo", "kinfo", "last_pid", "ifmsgs", "mach_port", "libproc", "psyms"}

\* A Mach call does not set errno: what "return errno" gives after one that
\* failed was there before, and may be 0.
MachFail == <<If(OK, Fail)>>

sigar_os_open ==
  <<Try(Fail), Try(Fail), Alloc("sigar"), Alloc("mach_port"), Get("libproc", << >>),
    IfNull("libproc", << >>, <<If(<<Set("psyms")>>, <<Null("psyms")>>)>>), Null("last_pid"),
    Null("pinfo")>> \o OK
sigar_os_close == <<Release("pinfo"), Free("sigar")>> \o OK

-----------------------------------------------------------------------------
(* The system.                                                             *)

sigar_vmstat == <<Try(MachFail)>> \o OK
sigar_mem_get == <<Try(Fail), Try(Fail), Call("sigar_vmstat", PassOn)>> \o OK
sigar_swap_fs_get ==
  <<Get("dirp", Fail), While(<<Use("dirp"), When(<<Continue>>)>>), Free("dirp"), Try(Fail)>> \o OK
sigar_swap_sysctl_get == <<When(NotImpl), Try(Fail)>> \o OK
sigar_swap_get ==
  <<Call("sigar_swap_sysctl_get", <<Call("sigar_swap_fs_get", PassOn)>>), Call("sigar_vmstat", PassOn)>> \o OK
sigar_cpu_get == <<Try(MachFail)>> \o OK
sigar_cpu_list_get ==
  <<Get("cpuload", MachFail), Do("sigar_cpu_list_create"),
    While(<<Grow("sigar_cpu_list_grow"), Use("cpuload")>>), Free("cpuload")>> \o OK
sigar_cpu_info_list_get == BSD!sigar_cpu_info_list_get
sigar_uptime_get == OK
sigar_loadavg_get == OK
sigar_system_stats_get == NotImpl
sigar_sys_info_get_uuid == NotImpl
sigar_os_is_in_container == OK

\* The version is asked of a command, whose answer may be empty.
sigar_os_sys_info_get ==
  <<Get("fp", NotImpl), If(<<Set("val")>>, <<Null("val")>>), Free("fp"), Use("val"),
    When(NotImpl), When(NotImpl)>> \o OK

-----------------------------------------------------------------------------
(* Processes.                                                              *)

\* The descriptors of a process are read into the buffer of the interface
\* messages.
proc_fdinfo_get ==
  <<IfNull("libproc", NotImpl, << >>), Lazy("ifconf_buf"),
    Forever(<<Use("psyms"), Use("ifconf_buf"), Try(Fail), Null("ifmsgs"), When(<<Break>>)>>)>> \o OK
proc_fd_get_count ==
  <<IfNull("libproc", NotImpl, << >>), Use("psyms"), When(NotImpl), Alloc("pbuffer"), Free("pbuffer")>> \o OK

sigar_os_proc_list_get ==
  <<Try(Fail), Alloc("proc"), Try(<<Free("proc")>> \o Fail),
    While(<<Use("proc"), When(<<Continue>>), When(<<Continue>>), Grow("sigar_proc_list_grow")>>),
    Free("proc")>> \o OK
sigar_get_pinfo == BSD!sigar_get_pinfo

sigar_proc_cpu_type == <<Try(Fail), Try(Fail)>> \o OK
sigar_proc_mem_get ==
  <<IfNull("libproc", << >>,
      <<Use("psyms"), When(<<When(<<When(<<Do("sigar_proc_cpu_type")>>)>>)>> \o OK)>>),
    Get("task", MachFail), Try(MachFail), Free("task")>> \o OK
sigar_proc_cumulative_disk_io_get == NotImpl
sigar_proc_cred_get == BSD!sigar_proc_cred_get

\* task: the port of another process.
get_proc_times ==
  LET fail == <<Free("task")>> \o MachFail
  IN <<IfNull("libproc", << >>, <<Use("psyms"), When(OK)>>),
       Get("task", MachFail), Try(fail), Try(fail)>> \o OK
sigar_proc_time_get ==
  <<Call("sigar_get_pinfo", PassOn), Call("get_proc_times", PassOn), Use("kinfo")>> \o OK
sigar_proc_threads_get ==
  <<Get("task", MachFail), Get("threads", MachFail), While(<<Use("threads")>>), Free("threads")>> \o OK
sigar_proc_state_get ==
  <<Call("sigar_get_pinfo", << >>), Use("pinfo"), IfOk(<< >>, PassOn), Use("kinfo"),
    Do("proc_fd_get_count"), Call("sigar_proc_threads_get", << >>)>> \o OK

\* The arguments of a process; with exe, finding none is no failure.
sigar_kern_proc_args_destroy == <<IfNull("out", << >>, <<Free("out"), Null("out")>>)>> \o OK
sigar_kern_proc_args_get(exe) ==
  LET none == <<Do("sigar_kern_proc_args_destroy")>> \o IF exe THEN OK ELSE Fail
  IN <<Alloc("out"), Try(<<Do("sigar_kern_proc_args_destroy")>> \o Fail), Use("out"),
       When(none), When(none)>> \o OK
kern_proc_args_skip_argv == <<IfNull("out", Fail, <<Use("out")>>), When(Fail)>> \o OK

sigar_os_proc_args_get ==
  <<Var("kargs"), CallOn("sigar_kern_proc_args_get", "kargs", PassOn),
    While(<<Use("kargs"), Grow("sigar_proc_args_grow")>>),
    DoOn("sigar_kern_proc_args_destroy", "kargs")>> \o OK
sigar_proc_env_get ==
  <<Var("kargs"), CallOn("sigar_kern_proc_args_get", "kargs", PassOn),
    CallOn("kern_proc_args_skip_argv", "kargs", <<DoOn("sigar_kern_proc_args_destroy", "kargs")>> \o PassOn),
    While(<<Use("kargs"), When(<<Break>>), When(<<Break>>), When(<<Break>>)>>),
    DoOn("sigar_kern_proc_args_destroy", "kargs")>> \o OK
sigar_proc_exe_get ==
  <<Var("kargs"), CallOn("sigar_kern_proc_args_get(exe)", "kargs", << >>),
    IfOk(<<CallOn("kern_proc_args_skip_argv", "kargs", << >>),
           IfOk(<<While(<<Use("kargs"), When(<<Break>>)>>)>>, << >>),
           DoOn("sigar_kern_proc_args_destroy", "kargs")>>, << >>)>> \o OK
sigar_proc_fd_get == NotImpl

sigar_dlinfo_modules(getter) == <<While(<<When(<<Continue>>), Call(getter, <<Break>>)>>)>> \o OK
sigar_proc_modules_get == <<If(ReturnCall("sigar_dlinfo_modules"), NotImpl)>>
sigar_thread_cpu_get == <<Alloc("self"), Try(MachFail), Free("self")>> \o OK

sigar_proc_port_get ==
  <<IfNull("libproc", NotImpl, << >>), Var("port_pids"), CallOn("sigar_proc_list_get", "port_pids", PassOn),
    While(<<Call("proc_fdinfo_get", <<Continue>>), Use("ifconf_buf"), Use("psyms")>>),
    DoOn("sigar_proc_list_destroy", "port_pids"), If(OK, Fail)>>

-----------------------------------------------------------------------------
(* File systems.                                                           *)

sigar_file_system_list_get == BSD!sigar_file_system_list_get
sigar_disk_usage_get ==
  <<Call("sigar_iodev_get", Fail), Get("service", MachFail), Get("parent", <<Free("service")>> \o Fail),
    Var("props"), When(<<Alloc("props")>>), Release("props"), Free("service"), Free("parent")>> \o OK
sigar_file_system_usage_get == BSD!sigar_file_system_usage_get

-----------------------------------------------------------------------------
(* The network.                                                            *)

sigar_net_route_list_get ==
  <<Try(Fail), Alloc("rt_buf"), Try(<<Free("rt_buf")>> \o Fail), Do("sigar_net_route_list_create"),
    While(<<Use("rt_buf"), When(<<Continue>>), When(<<Continue>>), Grow("sigar_net_route_list_grow")>>),
    Free("rt_buf")>> \o OK
sigar_arp_list_get == BSD!sigar_arp_list_get

sigar_ifmsg_init == BSD!sigar_ifmsg_init
has_ifaddr == BSD!has_ifaddr
sigar_ifmsg_iter(type) == BSD!sigar_ifmsg_iter(type)
sigar_net_interface_list_get == BSD!sigar_net_interface_list_get
sigar_net_interface_stat_get == BSD!sigar_net_interface_stat_get
sigar_net_interface_config_get(name) == BSD!sigar_net_interface_config_get(name)
sigar_net_interface_ipv6_config_get == BSD!sigar_net_interface_ipv6_config_get

net_connection_get(add_connection) == BSD!net_connection_get(add_connection)
sigar_net_connection_walk(get) == BSD!sigar_net_connection_walk(get)
sigar_net_listeners_get == BSD!sigar_net_listeners_get
sigar_tcp_get == BSD!sigar_tcp_get

get_nfsstats == <<Try(Fail)>> \o OK
sigar_nfs_client_v2_get == NotImpl
sigar_nfs_server_v2_get == NotImpl
sigar_nfs_client_v3_get == <<Call("get_nfsstats", PassOn)>> \o OK
sigar_nfs_server_v3_get == <<Call("get_nfsstats", PassOn)>> \o OK

-----------------------------------------------------------------------------
(* The functions by name.                                                  *)

Fns ==
  [sigar_os_open |-> sigar_os_open, sigar_os_close |-> sigar_os_close, sigar_vmstat |-> sigar_vmstat,
   sigar_mem_get |-> sigar_mem_get, sigar_swap_fs_get |-> sigar_swap_fs_get,
   sigar_swap_sysctl_get |-> sigar_swap_sysctl_get, sigar_swap_get |-> sigar_swap_get,
   sigar_cpu_get |-> sigar_cpu_get, sigar_cpu_list_get |-> sigar_cpu_list_get,
   sigar_cpu_info_list_get |-> sigar_cpu_info_list_get, sigar_uptime_get |-> sigar_uptime_get,
   sigar_loadavg_get |-> sigar_loadavg_get, sigar_system_stats_get |-> sigar_system_stats_get,
   sigar_sys_info_get_uuid |-> sigar_sys_info_get_uuid,
   sigar_os_is_in_container |-> sigar_os_is_in_container,
   sigar_os_sys_info_get |-> sigar_os_sys_info_get, proc_fdinfo_get |-> proc_fdinfo_get,
   proc_fd_get_count |-> proc_fd_get_count, sigar_os_proc_list_get |-> sigar_os_proc_list_get,
   sigar_get_pinfo |-> sigar_get_pinfo, sigar_proc_cpu_type |-> sigar_proc_cpu_type,
   sigar_proc_mem_get |-> sigar_proc_mem_get,
   sigar_proc_cumulative_disk_io_get |-> sigar_proc_cumulative_disk_io_get,
   sigar_proc_cred_get |-> sigar_proc_cred_get, get_proc_times |-> get_proc_times,
   sigar_proc_time_get |-> sigar_proc_time_get, sigar_proc_threads_get |-> sigar_proc_threads_get,
   sigar_proc_state_get |-> sigar_proc_state_get,
   sigar_kern_proc_args_destroy |-> sigar_kern_proc_args_destroy,
   kern_proc_args_skip_argv |-> kern_proc_args_skip_argv,
   sigar_os_proc_args_get |-> sigar_os_proc_args_get, sigar_proc_env_get |-> sigar_proc_env_get,
   sigar_proc_exe_get |-> sigar_proc_exe_get, sigar_proc_fd_get |-> sigar_proc_fd_get,
   sigar_proc_modules_get |-> sigar_proc_modules_get, sigar_thread_cpu_get |-> sigar_thread_cpu_get,
   sigar_proc_port_get |-> sigar_proc_port_get,
   sigar_file_system_list_get |-> sigar_file_system_list_get,
   sigar_disk_usage_get |-> sigar_disk_usage_get,
   sigar_file_system_usage_get |-> sigar_file_system_usage_get,
   sigar_net_route_list_get |-> sigar_net_route_list_get, sigar_arp_list_get |-> sigar_arp_list_get,
   sigar_ifmsg_init |-> sigar_ifmsg_init, has_ifaddr |-> has_ifaddr,
   sigar_net_interface_list_get |-> sigar_net_interface_list_get,
   sigar_net_interface_stat_get |-> sigar_net_interface_stat_get,
   sigar_net_interface_ipv6_config_get |-> sigar_net_interface_ipv6_config_get,
   sigar_net_listeners_get |-> sigar_net_listeners_get, sigar_tcp_get |-> sigar_tcp_get,
   get_nfsstats |-> get_nfsstats, sigar_nfs_client_v2_get |-> sigar_nfs_client_v2_get,
   sigar_nfs_server_v2_get |-> sigar_nfs_server_v2_get,
   sigar_nfs_client_v3_get |-> sigar_nfs_client_v3_get,
   sigar_nfs_server_v3_get |-> sigar_nfs_server_v3_get]
  @@ "sigar_dlinfo_modules" :> sigar_dlinfo_modules("module_getter")
  @@ "sigar_dlinfo_modules(self)" :> sigar_dlinfo_modules("proc_module_get_self")
  @@ "sigar_proc_modules_get(self)" :> ReturnCall("sigar_dlinfo_modules(self)")
  @@ "sigar_kern_proc_args_get" :> sigar_kern_proc_args_get(FALSE)
  @@ "sigar_kern_proc_args_get(exe)" :> sigar_kern_proc_args_get(TRUE)
  @@ "sigar_ifmsg_iter(LIST)" :> sigar_ifmsg_iter("IFMSG_ITER_LIST")
  @@ "sigar_ifmsg_iter(GET)" :> sigar_ifmsg_iter("IFMSG_ITER_GET")
  @@ "sigar_net_interface_config_get" :> sigar_net_interface_config_get("NULL")
  @@ "sigar_net_interface_config_get(name)" :> sigar_net_interface_config_get("name")
  @@ "net_connection_get(list)" :> net_connection_get("net_connection_list_walker")
  @@ "net_connection_get(stat)" :> net_connection_get("net_stat_walker")
  @@ "net_connection_get(port)" :> net_connection_get("net_stat_port_walker")
  @@ "net_connection_get(estab)" :> net_connection_get("tcp_curr_estab_count")
  @@ "sigar_net_connection_walk(list)" :> sigar_net_connection_walk("net_connection_get(list)")
  @@ "sigar_net_connection_walk(stat)" :> sigar_net_connection_walk("net_connection_get(stat)")
  @@ "sigar_net_connection_walk(port)" :> sigar_net_connection_walk("net_connection_get(port)")
  @@ "sigar_net_connection_walk(estab)" :> sigar_net_connection_walk("net_connection_get(estab)")
  @@ "sigar_net_listeners_get(list)" :> sigar_net_listeners_get
  @@ Common!Fns

Api == BSD!Api

-----------------------------------------------------------------------------
(* Where the code departs from the properties of SigarCalls.               *)

\* The port of a process is released on some paths only (darwin_sigar.c:753,
\* 871, 938 and 961), that of a thread not when it cannot be read (1319);
\* sigar_proc_port_get leaves the pids it could not read (2555).
Leaks ==
  Common!Leaks \cup ({"get_proc_times", "sigar_proc_mem_get", "sigar_proc_threads_get"} \X {"task"})
  \cup {<<"sigar_thread_cpu_get", "self">>, <<"sigar_proc_port_get", "port_pids">>}

\* The process information is read after a failed call for the same pid
\* (642), the interface messages after a failed read or with descriptors in
\* their place (540, 1808), what libproc does not export is called (193), and
\* the answers of sw_vers (2642) and of the disk's registry (1529) are not
\* tested; no list of CPUs (470) or ARP entries (2504) may come with 0.
Faults ==
  ({"sigar_proc_cred_get", "sigar_proc_time_get", "sigar_proc_state_get"} \X {"kinfo"}) \cup
  ({"get_proc_times", "proc_fd_get_count", "proc_fdinfo_get", "sigar_proc_mem_get"} \X {"psyms"}) \cup
  ({"sigar_arp_list_destroy", "sigar_cpu_list_destroy"} \X {"out"}) \cup
  {<<"sigar_ifmsg_iter(GET)", "ifmsgs">>, <<"sigar_os_sys_info_get", "val">>,
   <<"sigar_disk_usage_get", "props">>}

\* kinfo and ifmsgs hold nothing before the first read that succeeds, psyms
\* when libproc was not found.
Dangles == {"kinfo", "ifmsgs", "psyms"}

\* sigar_os_close releases neither the host port nor libproc (212).
Kept == {"mach_port", "libproc"}
==============================================================================
