----------------------------- MODULE CallsCommon -----------------------------
(***************************************************************************)
(* The functions every platform shares: the handle, the lists, and what is *)
(* built from the functions of the platform (sigar_os_*, the walkers).     *)
(***************************************************************************)
EXTENDS SigarStatements, TLC

\* The fields of SIGAR_T_BASE that own something, and the structure itself.
BaseFields ==
  {"sigar", "ifconf_buf", "self_path", "pids", "pids_data", "fsdev", "proc_cpu",
   "net_listen", "net_services_tcp", "net_services_udp", "proc_io"}

-----------------------------------------------------------------------------
(* The handle.                                                             *)

sigar_open ==
  <<Call("sigar_os_open", << >>),
    IfOk(<<Null("ifconf_buf"), Null("self_path"), Null("fsdev"), Null("pids"), Null("pids_data"),
           Null("proc_cpu"), Null("net_listen"), Null("net_services_tcp"),
           Null("net_services_udp"), Null("proc_io")>>, << >>),
    Call("sigar_sys_info_get", << >>), IfOk(<<Use("sigar")>>, << >>), ReturnStatus>>

\* The cache of I/O rates is kept: nothing frees it with the other fields.
sigar_closeForgetsProcIo ==
  <<Release("ifconf_buf"), Release("self_path"),
    IfNull("pids", << >>, <<DoOn("sigar_proc_list_destroy", "pids_data"), Free("pids")>>),
    Release("fsdev"), Release("proc_cpu"), Release("net_listen"),
    Release("net_services_tcp"), Release("net_services_udp")>>
  \o ReturnCall("sigar_os_close")

sigar_close ==
  <<Release("ifconf_buf"), Release("self_path"),
    IfNull("pids", << >>, <<DoOn("sigar_proc_list_destroy", "pids_data"), Free("pids")>>),
    Release("fsdev"), Release("proc_cpu"), Release("net_listen"),
    Release("net_services_tcp"), Release("net_services_udp"), Release("proc_io")>>
  \o ReturnCall("sigar_os_close")

-----------------------------------------------------------------------------
(* Lists: "out" is live while its size is not zero.                        *)

list_create == <<Alloc("out")>> \o OK
list_grow == <<IfNull("out", <<Alloc("out")>>, <<Use("out")>>)>> \o OK
list_destroy == <<IfNull("out", << >>, <<Free("out"), Null("out")>>)>> \o OK

sigar_proc_list_create == list_create
sigar_proc_list_grow == list_grow
sigar_proc_list_destroy == list_destroy
sigar_proc_args_create == list_create
sigar_proc_args_grow == list_grow
sigar_proc_args_destroy == list_destroy
sigar_file_system_list_create == list_create
sigar_file_system_list_grow == list_grow
sigar_file_system_list_destroy == list_destroy
sigar_cpu_info_list_create == list_create
sigar_cpu_info_list_grow == list_grow
sigar_cpu_info_list_destroy == list_destroy
sigar_cpu_list_create == list_create
sigar_cpu_list_grow == list_grow
sigar_cpu_list_destroy == list_destroy
sigar_net_route_list_create == list_create
sigar_net_route_list_grow == list_grow
sigar_net_route_list_destroy == list_destroy
sigar_net_interface_list_create == list_create
sigar_net_interface_list_grow == list_grow
sigar_net_interface_list_destroy == list_destroy
sigar_net_connection_list_create == list_create
sigar_net_connection_list_grow == list_grow
sigar_net_connection_list_destroy == list_destroy
sigar_arp_list_create == list_create
sigar_arp_list_grow == list_grow
sigar_arp_list_destroy == list_destroy
sigar_who_list_create == list_create
sigar_who_list_grow == list_grow
sigar_who_list_destroy == list_destroy


-----------------------------------------------------------------------------
(* Processes.                                                              *)

\* proclist is "NULL" for the list the handle keeps.
sigar_proc_list_get(proclist) ==
  IF proclist = "NULL"
  THEN <<IfNull("pids", <<Alloc("pids"), DoOn("sigar_proc_list_create", "pids_data")>>, << >>),
         CallOn("sigar_os_proc_list_get", "pids_data", << >>), ReturnStatus>>
  ELSE <<Do("sigar_proc_list_create")>> \o ReturnCall("sigar_os_proc_list_get")

sigar_proc_stat_get ==
  <<Call("sigar_proc_list_get(NULL)", PassOn), Use("pids_data"),
    While(<<Call("sigar_proc_state_get", <<Continue>>)>>)>> \o OK

\* The status is not returned.
sigar_proc_args_getFallsOff ==
  <<Do("sigar_proc_args_create"),
    Call("sigar_os_proc_args_get", <<Do("sigar_proc_args_destroy")>>)>>

sigar_proc_args_get ==
  <<Do("sigar_proc_args_create"),
    Call("sigar_os_proc_args_get", <<Do("sigar_proc_args_destroy")>>), ReturnStatus>>

sigar_proc_cred_name_get ==
  <<Call("sigar_proc_cred_get", PassOn), Call("sigar_user_name_get", PassOn)>>
    \o ReturnCall("sigar_group_name_get")

\* The rates of a process: each has a cache in the handle, made when it is
\* first called, and answers from it when it was called just before.
sigar_proc_cpu_get ==
  <<Lazy("proc_cpu"), Use("proc_cpu"), When(OK), Call("sigar_proc_time_get", PassOn)>> \o OK
sigar_proc_disk_io_get ==
  <<Lazy("proc_io"), Use("proc_io"), When(OK), Call("sigar_proc_cumulative_disk_io_get", PassOn)>> \o OK

sigar_user_name_get == <<Try(Fail), If(<< >>, Fail)>> \o OK
sigar_group_name_get == <<Try(Fail)>> \o OK

sigar_proc_list_procfs_get ==
  <<Get("proc_dir", Fail),
    While(<<When(<<Continue>>), Grow("sigar_proc_list_grow")>>), Free("proc_dir")>> \o OK

sigar_proc_fd_count == <<Get("fd_dir", Fail), While(<< >>), Free("fd_dir")>> \o OK

sigar_procfs_args_get ==
  <<Get("cmdline", Fail), Null("buf"),
    While(<<IfNull("buf", <<Alloc("buf")>>, <<Use("buf")>>)>>), Free("cmdline"),
    IfNull("buf", OK, << >>), While(<<Use("buf"), Grow("sigar_proc_args_grow")>>), Free("buf")>> \o OK

sigar_proc_file2str == ReturnCall("sigar_file2str")
sigar_file2str ==
  <<Get("fd", Fail), If(<<Let("OK")>>, <<Let("ERR")>>), Free("fd"), ReturnStatus>>
sigar_skip_file_lines == <<While(<<Try(Fail)>>)>> \o OK

\* sigar_get_self_path, and the module getter it passes: a getter that
\* finds the library stops the walk over the modules.
module_getter == <<If(OK, Fail)>>
proc_module_get_self ==
  <<When(OK), When(<<Alloc("self_path")>> \o Fail)>> \o OK
sigar_get_self_path ==
  <<IfNull("self_path",
      <<When(<<Alloc("self_path")>> \o OK), Do("sigar_proc_modules_get(self)"), Lazy("self_path")>>,
      << >>)>> \o OK

sigar_dlinfo_get == <<Try(Fail), Get("dl_handle", Fail)>> \o OK
sigar_dlinfo_modules(getter) ==
  <<Var("dl_handle"), Call("sigar_dlinfo_get", PassOn),
    Forever(<<Call(getter, <<Break>>), If(<< >>, <<Break>>)>>), Free("dl_handle")>> \o OK

elf_file_get_em == <<Get("elf", << >>), Release("elf"), If(OK, Fail)>>
sigar_elf_file_guess_arch == <<When(<<Do("elf_file_get_em")>>)>> \o OK

-----------------------------------------------------------------------------
(* The system.                                                             *)

sigar_sys_info_get ==
  <<Do("sigar_sys_info_get_uname"), Do("sigar_os_sys_info_get"), Do("sigar_sys_info_get_uuid")>> \o OK
sigar_sys_info_get_uname == OK

\* utmpx: setutxent and endutxent; otherwise the file is read.
sigar_who_utmp ==
  <<If(<<Alloc("utmp")>>, <<Get("utmp", Fail)>>),
    While(<<When(<<Continue>>), Grow("sigar_who_list_grow")>>), Free("utmp")>> \o OK
sigar_who_list_get ==
  <<Do("sigar_who_list_create"),
    Call("sigar_who_utmp", <<Do("sigar_who_list_destroy")>> \o PassOn)>> \o OK

sigar_resource_limit_get == OK

-----------------------------------------------------------------------------
(* File systems.                                                           *)

sigar_file_system_ping == <<Let("OK"), When(<<Call("sigar_rpc_ping", << >>)>>), ReturnStatus>>
get_sockaddr == <<When(<<Try(Fail)>>)>> \o OK
sigar_rpc_ping ==
  <<Call("get_sockaddr", PassOn), If(<< >>, Fail), Get("client", Fail),
    If(<<Let("OK")>>, <<Let("ERR")>>), Free("client"), ReturnStatus>>

\* The device of a directory, from the cache of the handle.  OK: not NULL.
sigar_iodev_get ==
  <<Lazy("fsdev"), Try(Fail), Use("fsdev"), When(OK), When(OK),
    CallOn("sigar_file_system_list_get", "fslist", Fail),
    While(<<When(<<Try(<<Continue>>), Use("fsdev")>>)>>),
    DoOn("sigar_file_system_list_destroy", "fslist"), If(OK, Fail)>>

sigar_statvfs == <<Try(Fail)>> \o OK
sigar_file_attrs_get == <<Try(Fail)>> \o OK
sigar_link_attrs_get == <<Try(Fail)>> \o OK

\* dirp names the stream; sub is what is done with a subdirectory: a
\* directory is walked two levels deep.
dir_stat_get(dirp, sub) ==
  <<Get(dirp, Fail), While(<<When(<<Continue>>), Try(<<Continue>>), When(sub)>>), Free(dirp)>> \o OK
sigar_dir_stat_get == ReturnCall("dir_stat_get")
sigar_dir_usage_get == ReturnCall("dir_stat_get(recurse)")

-----------------------------------------------------------------------------
(* The network.                                                            *)

net_connection_list_walker == <<Grow("sigar_net_connection_list_grow")>> \o OK
sigar_net_connection_list_get ==
  <<Do("sigar_net_connection_list_create"),
    Call("sigar_net_connection_walk(list)", <<Do("sigar_net_connection_list_destroy")>>), ReturnStatus>>
sigar_net_connection_listeners_get ==
  <<Do("sigar_net_connection_list_create"),
    Call("sigar_net_listeners_get(list)", <<Do("sigar_net_connection_list_destroy")>>), ReturnStatus>>

sigar_net_listen_address_add == <<Use("net_listen")>> \o OK
sigar_net_listen_address_get ==
  <<IfNull("net_listen", <<Call("sigar_net_stat_get", PassOn)>>,
                         <<When(<<Call("sigar_net_stat_get", PassOn)>>)>>),
    Use("net_listen"), If(OK, Fail)>>
net_stat_walker ==
  <<When(<<If(<<Do("sigar_net_listen_address_add")>>, <<Use("net_listen")>>)>>)>> \o OK

\* The cache of listening ports is made by its reader only.
sigar_net_stat_getNoCache == ReturnCall("sigar_net_connection_walk(stat)")

sigar_net_stat_get == <<Lazy("net_listen")>> \o ReturnCall("sigar_net_connection_walk(stat)")
net_stat_port_walker == OK
sigar_net_stat_port_get == ReturnCall("sigar_net_connection_walk(port)")
tcp_curr_estab_count == OK
sigar_tcp_curr_estab == ReturnCall("sigar_net_connection_walk(estab)")

net_services_parse(names) ==
  <<Get("services", Fail), While(<<When(<<Continue>>), Use(names)>>), Free("services")>> \o OK
sigar_net_services_name_get ==
  <<If(<<IfNull("net_services_tcp",
           <<Alloc("net_services_tcp"), Do("net_services_parse(tcp)")>>, << >>),
         Use("net_services_tcp")>>,
       <<If(<<IfNull("net_services_udp",
                <<Alloc("net_services_udp"), Do("net_services_parse(udp)")>>, << >>),
              Use("net_services_udp")>>, Fail)>>),
    If(OK, Fail)>>

sigar_get_default_gateway ==
  <<CallOn("sigar_net_route_list_get", "routelist", PassOn), While(<<When(<<Break>>)>>),
    DoOn("sigar_net_route_list_destroy", "routelist")>> \o OK
sigar_net_info_get ==
  <<Get("resolv_conf", << >>),
    IfNull("resolv_conf", << >>, <<While(<<When(<<Continue>>), When(<<Break>>)>>), Free("resolv_conf")>>),
    Do("sigar_get_default_gateway")>> \o OK

\* The hardware address of an interface, as each platform finds it.
hwaddr_libdlpi_lookup == <<Get("dlpi", OK), Free("dlpi")>> \o OK
hwaddr_aix_lookup == <<IfNull("ifconf_buf", << >>, <<Use("ifconf_buf")>>)>> \o OK
hwaddr_arp_lookup == OK
get_interface_type == OK

\* name is "NULL" for the primary interface.
sigar_net_interface_config_get(name) ==
  IF name = "NULL" THEN ReturnCall("sigar_net_interface_config_primary_get")
  ELSE <<Get("if_sock", Fail), Try(<<Free("if_sock")>> \o Fail), When(<<Do("hwaddr_lookup")>>),
         Free("if_sock"), Do("sigar_net_interface_ipv6_config_get")>> \o OK

\* more: what the platform adds to the interfaces the ioctl returned.
sigar_net_interface_list_get(more) ==
  <<Get("ifconf_sock", Fail),
    Forever(<<IfNull("ifconf_buf", <<Alloc("ifconf_buf")>>, << >>), Use("ifconf_buf"),
              Try(<<When(<<Free("ifconf_buf")>> \o Fail)>>),
              When(<<Break>>), If(<<Continue>>, <<Break>>)>>),
    Free("ifconf_sock"), Alloc("out"), While(<<Use("out")>>)>> \o more \o OK

sigar_net_interface_config_primary_get ==
  <<CallOn("sigar_net_interface_list_get", "iflist", PassOn),
    While(<<Call("sigar_net_interface_config_get(name)", <<Continue>>),
            When(<<Continue>>), When(<<Break>>)>>),
    DoOn("sigar_net_interface_list_destroy", "iflist"), If(OK, Fail)>>

fqdn_ip_get == <<Call("sigar_net_interface_config_primary_get", PassOn), If(OK, Fail)>>
sigar_fqdn_get ==
  <<Try(Fail), When(<<When(OK), While(<<When(OK)>>)>>), When(<<Do("fqdn_ip_get")>>)>> \o OK

sigar_password_get == <<Get("tty", Fail), Free("tty")>> \o OK

-----------------------------------------------------------------------------
(* The functions by name.                                                  *)

Fns ==
  [sigar_open |-> sigar_open, sigar_close |-> sigar_close,
   sigar_proc_list_create |-> sigar_proc_list_create, sigar_proc_list_grow |-> sigar_proc_list_grow,
   sigar_proc_list_destroy |-> sigar_proc_list_destroy,
   sigar_proc_args_create |-> sigar_proc_args_create, sigar_proc_args_grow |-> sigar_proc_args_grow,
   sigar_proc_args_destroy |-> sigar_proc_args_destroy,
   sigar_file_system_list_create |-> sigar_file_system_list_create,
   sigar_file_system_list_grow |-> sigar_file_system_list_grow,
   sigar_file_system_list_destroy |-> sigar_file_system_list_destroy,
   sigar_cpu_info_list_create |-> sigar_cpu_info_list_create,
   sigar_cpu_info_list_grow |-> sigar_cpu_info_list_grow,
   sigar_cpu_info_list_destroy |-> sigar_cpu_info_list_destroy,
   sigar_cpu_list_create |-> sigar_cpu_list_create, sigar_cpu_list_grow |-> sigar_cpu_list_grow,
   sigar_cpu_list_destroy |-> sigar_cpu_list_destroy,
   sigar_net_route_list_create |-> sigar_net_route_list_create,
   sigar_net_route_list_grow |-> sigar_net_route_list_grow,
   sigar_net_route_list_destroy |-> sigar_net_route_list_destroy,
   sigar_net_interface_list_create |-> sigar_net_interface_list_create,
   sigar_net_interface_list_grow |-> sigar_net_interface_list_grow,
   sigar_net_interface_list_destroy |-> sigar_net_interface_list_destroy,
   sigar_net_connection_list_create |-> sigar_net_connection_list_create,
   sigar_net_connection_list_grow |-> sigar_net_connection_list_grow,
   sigar_net_connection_list_destroy |-> sigar_net_connection_list_destroy,
   sigar_arp_list_create |-> sigar_arp_list_create, sigar_arp_list_grow |-> sigar_arp_list_grow,
   sigar_arp_list_destroy |-> sigar_arp_list_destroy, sigar_who_list_create |-> sigar_who_list_create,
   sigar_who_list_grow |-> sigar_who_list_grow, sigar_who_list_destroy |-> sigar_who_list_destroy,
   sigar_proc_stat_get |-> sigar_proc_stat_get, sigar_proc_args_get |-> sigar_proc_args_get,
   sigar_proc_cred_name_get |-> sigar_proc_cred_name_get, sigar_user_name_get |-> sigar_user_name_get,
   sigar_group_name_get |-> sigar_group_name_get,
   sigar_proc_cpu_get |-> sigar_proc_cpu_get, sigar_proc_disk_io_get |-> sigar_proc_disk_io_get,
   sigar_proc_list_procfs_get |-> sigar_proc_list_procfs_get,
   sigar_proc_fd_count |-> sigar_proc_fd_count, sigar_procfs_args_get |-> sigar_procfs_args_get,
   sigar_proc_file2str |-> sigar_proc_file2str, sigar_file2str |-> sigar_file2str,
   sigar_skip_file_lines |-> sigar_skip_file_lines, module_getter |-> module_getter,
   proc_module_get_self |-> proc_module_get_self, sigar_get_self_path |-> sigar_get_self_path,
   sigar_dlinfo_get |-> sigar_dlinfo_get, elf_file_get_em |-> elf_file_get_em,
   sigar_elf_file_guess_arch |-> sigar_elf_file_guess_arch, sigar_sys_info_get |-> sigar_sys_info_get,
   sigar_sys_info_get_uname |-> sigar_sys_info_get_uname, sigar_who_utmp |-> sigar_who_utmp,
   sigar_who_list_get |-> sigar_who_list_get, sigar_resource_limit_get |-> sigar_resource_limit_get,
   sigar_file_system_ping |-> sigar_file_system_ping, get_sockaddr |-> get_sockaddr,
   sigar_rpc_ping |-> sigar_rpc_ping, sigar_iodev_get |-> sigar_iodev_get,
   sigar_statvfs |-> sigar_statvfs, sigar_file_attrs_get |-> sigar_file_attrs_get,
   sigar_link_attrs_get |-> sigar_link_attrs_get, sigar_dir_stat_get |-> sigar_dir_stat_get,
   sigar_dir_usage_get |-> sigar_dir_usage_get,
   net_connection_list_walker |-> net_connection_list_walker,
   sigar_net_connection_list_get |-> sigar_net_connection_list_get,
   sigar_net_connection_listeners_get |-> sigar_net_connection_listeners_get,
   sigar_net_listen_address_add |-> sigar_net_listen_address_add,
   sigar_net_listen_address_get |-> sigar_net_listen_address_get, net_stat_walker |-> net_stat_walker,
   sigar_net_stat_get |-> sigar_net_stat_get, net_stat_port_walker |-> net_stat_port_walker,
   sigar_net_stat_port_get |-> sigar_net_stat_port_get, tcp_curr_estab_count |-> tcp_curr_estab_count,
   sigar_tcp_curr_estab |-> sigar_tcp_curr_estab,
   sigar_net_services_name_get |-> sigar_net_services_name_get,
   sigar_get_default_gateway |-> sigar_get_default_gateway, sigar_net_info_get |-> sigar_net_info_get,
   hwaddr_libdlpi_lookup |-> hwaddr_libdlpi_lookup, hwaddr_aix_lookup |-> hwaddr_aix_lookup,
   hwaddr_arp_lookup |-> hwaddr_arp_lookup, get_interface_type |-> get_interface_type,
   sigar_net_interface_config_primary_get |-> sigar_net_interface_config_primary_get,
   fqdn_ip_get |-> fqdn_ip_get, sigar_fqdn_get |-> sigar_fqdn_get,
   sigar_password_get |-> sigar_password_get]
  @@ "sigar_proc_list_get" :> sigar_proc_list_get("list")
  @@ "sigar_proc_list_get(NULL)" :> sigar_proc_list_get("NULL")
  @@ "dir_stat_get" :> dir_stat_get("dirp", << >>)
  @@ "dir_stat_get(recurse)" :> dir_stat_get("dirp", <<Do("dir_stat_get(sub)")>>)
  @@ "dir_stat_get(sub)" :> dir_stat_get("subdirp", << >>)
  @@ "net_services_parse(tcp)" :> net_services_parse("net_services_tcp")
  @@ "net_services_parse(udp)" :> net_services_parse("net_services_udp")
  @@ "sigar_net_interface_config_get" :> sigar_net_interface_config_get("NULL")
  @@ "sigar_net_interface_config_get(name)" :> sigar_net_interface_config_get("name")
  @@ "sigar_net_interface_list_get" :> sigar_net_interface_list_get(<< >>)
  @@ "sigar_dlinfo_modules" :> sigar_dlinfo_modules("module_getter")
  @@ "sigar_dlinfo_modules(self)" :> sigar_dlinfo_modules("proc_module_get_self")

\* What a client calls, and what destroys the list it gets.
Api ==
  [f \in {"sigar_proc_stat_get", "sigar_proc_cred_name_get", "sigar_get_self_path",
          "sigar_proc_cpu_get", "sigar_proc_disk_io_get",
          "sigar_sys_info_get", "sigar_resource_limit_get", "sigar_file_system_ping",
          "sigar_dir_stat_get", "sigar_dir_usage_get", "sigar_file_attrs_get", "sigar_link_attrs_get",
          "sigar_net_listen_address_get", "sigar_net_stat_get", "sigar_net_stat_port_get",
          "sigar_net_services_name_get", "sigar_net_info_get", "sigar_net_interface_config_get",
          "sigar_net_interface_config_get(name)", "sigar_fqdn_get", "sigar_password_get",
          "sigar_proc_mem_get", "sigar_proc_time_get", "sigar_proc_state_get",
          "sigar_mem_get", "sigar_swap_get", "sigar_cpu_get", "sigar_uptime_get",
          "sigar_loadavg_get", "sigar_proc_exe_get", "sigar_proc_fd_get", "sigar_proc_env_get",
          "sigar_file_system_usage_get", "sigar_disk_usage_get",
          "sigar_net_interface_stat_get", "sigar_tcp_get", "sigar_proc_port_get"} |-> ""]
  @@ [sigar_proc_list_get |-> "sigar_proc_list_destroy",
      sigar_proc_args_get |-> "sigar_proc_args_destroy",
      sigar_file_system_list_get |-> "sigar_file_system_list_destroy",
      sigar_cpu_list_get |-> "sigar_cpu_list_destroy",
      sigar_cpu_info_list_get |-> "sigar_cpu_info_list_destroy",
      sigar_net_route_list_get |-> "sigar_net_route_list_destroy",
      sigar_net_interface_list_get |-> "sigar_net_interface_list_destroy",
      sigar_net_connection_list_get |-> "sigar_net_connection_list_destroy",
      sigar_net_connection_listeners_get |-> "sigar_net_connection_list_destroy",
      sigar_arp_list_get |-> "sigar_arp_list_destroy",
      sigar_who_list_get |-> "sigar_who_list_destroy"]

-----------------------------------------------------------------------------
(* Where the shared code departs from the properties of SigarCalls.        *)

\* A list of pids that could not be read is not destroyed (sigar.c:481), nor
\* is it by the client, for whom the call failed.
Leaks == {<<"sigar_proc_list_get", "list">>}

\* When the ioctl that lists the interfaces fails, the socket is not closed,
\* and the buffer is freed but stays in the handle, for the next call and
\* sigar_close to use (sigar.c:2002).
IfConfLeaks == {<<"sigar_net_interface_list_get", "ifconf_sock">>}
IfConfFaults == {<<"sigar_net_interface_list_get", "ifconf_buf">>, <<"sigar_close", "ifconf_buf">>}
==============================================================================
