---------------------------- MODULE CallsSolaris -----------------------------
(***************************************************************************)
(* The Solaris functions: kernel statistics (kstat) are read through a     *)
(* chain that is kept open, connections and routes through a stream (mib2) *)
(* that a complete walk closes, processes through /proc and libproc.       *)
(***************************************************************************)
EXTENDS SigarStatements, TLC

Common == INSTANCE CallsCommon

\* What sigar_t owns here.  ks: ks.cpu, ks.cpu_info and ks.cpuid; psinfo:
\* the contents of pinfo; last_pid: null is -1; psyms: the symbols of
\* libproc that sigar_init_libproc does not insist on.
Fields ==
  Common!BaseFields \cup
  {"kc", "ks", "mib2_sd", "mib2_smb", "mib2_db", "pinfo", "psinfo", "last_pid", "cpulist",
   "plib", "psyms", "pargs", "zonenm", "zonenm_short"}

\* calloc: every pointer starts null.
sigar_os_open ==
  <<Get("kc", <<Null("sigar")>> \o Fail), Get("sigar", Fail), Null("ks"), Null("mib2_smb"),
    Null("mib2_db"), Null("pinfo"), Null("cpulist"), Null("plib"), Null("psyms"), Null("pargs"),
    Alloc("zonenm"), Alloc("zonenm_short"), Do("sigar_get_kstats"), Null("last_pid"),
    Null("mib2_sd")>> \o OK

sigar_os_close ==
  <<Free("kc"), IfNull("mib2_sd", << >>, <<Do("close_mib2")>>), Release("ks"), Release("pinfo"),
    DoOn("sigar_cpu_list_destroy", "cpulist"), Release("plib"), Release("pargs"),
    Free("zonenm"), Free("zonenm_short"), Free("sigar")>> \o OK

-----------------------------------------------------------------------------
(* kstats.c, procfs.c.                                                     *)

sigar_get_kstats ==
  <<IfNull("ks", <<Alloc("ks")>>, << >>), When(<<While(<<When(<<Continue>>), Use("ks")>>)>>)>> \o OK
sigar_kstat_update == <<Use("kc"), Try(Fail), When(<<Do("sigar_get_kstats")>>)>> \o OK

\* The contents are kept for a while: a second call for the pid of the last
\* one returns at once, also when that one failed.
sigar_proc_psinfo_get ==
  <<Lazy("pinfo"), IfNull("last_pid", << >>, <<When(OK)>>), Set("last_pid"),
    Get("psinfo_fd", Fail), Let("OK"), If(<<Set("psinfo")>>, <<Let("ERR")>>),
    Free("psinfo_fd"), ReturnStatus>>
sigar_proc_usage_get ==
  <<Get("usage_fd", Fail), Let("OK"), Try(<<Let("ERR")>>), Free("usage_fd"), ReturnStatus>>
sigar_proc_status_get ==
  <<Get("status_fd", Fail), Let("OK"), Try(<<Let("ERR")>>), Free("status_fd"), ReturnStatus>>

-----------------------------------------------------------------------------
(* get_mib2.c: the stream.  mib2_sd is null while it is closed (sd == -1). *)

\* The buffers of the stream are freed and still pointed to.
close_mib2Dangles ==
  <<IfNull("mib2_sd", Fail, << >>), Try(Fail), Free("mib2_sd"), Null("mib2_sd"),
    IfNull("mib2_db", << >>, <<Free("mib2_db")>>), IfNull("mib2_smb", << >>, <<Free("mib2_smb")>>)>> \o OK

close_mib2 ==
  <<IfNull("mib2_sd", Fail, << >>), Try(Fail), Free("mib2_sd"), Null("mib2_sd"),
    IfNull("mib2_db", << >>, <<Free("mib2_db"), Null("mib2_db")>>),
    IfNull("mib2_smb", << >>, <<Free("mib2_smb"), Null("mib2_smb")>>)>> \o OK

open_mib2 ==
  <<IfNull("mib2_sd", << >>, Fail), Get("mib2_sd", Fail), Try(Fail), Try(Fail),
    Get("mib2_smb", Fail)>> \o OK

\* "EOD": the end of the data, which closes the stream.  The acknowledgement
\* it looks at is in smb; db is enlarged with realloc.
get_mib2 ==
  <<IfNull("mib2_sd", <<Call("open_mib2", PassOn), Use("mib2_smb"), Try(Fail)>>, << >>),
    Try(Fail), Use("mib2_smb"),
    When(<<Call("close_mib2", PassOn), Return("EOD")>>), When(Fail), When(Fail),
    IfNull("mib2_db", <<Get("mib2_db", Fail)>>, <<When(<<Try(<<Null("mib2_db")>> \o Fail)>>)>>),
    Try(Fail), When(Fail)>> \o OK

\* while ((rc = get_mib2(...)) == GET_MIB2_OK) body, and what follows it.
Walk(body) == Forever(<<Call("get_mib2", <<Break>>)>> \o body)
WalkEnd == <<IfStatus("EOD", OK, <<Do("close_mib2")>> \o Fail)>>

-----------------------------------------------------------------------------
(* The system.                                                             *)

zone_mem_get == <<Use("kc"), If(<< >>, <<Try(Fail), Try(Fail)>>)>> \o OK
sigar_mem_get ==
  <<Call("sigar_kstat_update", PassOn), When(ReturnCall("zone_mem_get"))>> \o OK
sigar_swap_get ==
  <<Try(Fail), Alloc("stab"), Try(<<Free("stab")>> \o Fail), While(<<When(<<Continue>>)>>),
    Free("stab"), Call("sigar_kstat_update", PassOn), When(OK), While(<<Try(<<Break>>)>>)>> \o OK

get_chip_id == <<Use("ks"), If(OK, Fail)>>
get_chip_brand == <<Use("ks"), If(OK, Fail)>>

sigar_cpu_get == <<CallOn("sigar_cpu_list_get(own)", "cpulist", PassOn), While(<<Use("cpulist")>>)>> \o OK

\* own: the list is sigar->cpulist, which is created once.
OwnList(own) ==
  IF own THEN IfNull("out", <<Do("sigar_cpu_list_create")>>, << >>) ELSE Do("sigar_cpu_list_create")
sigar_cpu_list_get_global(own) ==
  <<Call("sigar_kstat_update", PassOn), OwnList(own), Alloc("chips"),
    While(<<Use("ks"), When(<<Continue>>), When(<<Continue>>), Try(<<Continue>>),
            When(<<Do("get_chip_id")>>), Use("chips"), Grow("sigar_cpu_list_grow")>>),
    Free("chips")>> \o OK
sigar_cpu_list_get_joyent(own) ==
  <<Call("sigar_kstat_update", PassOn), OwnList(own), Use("zonenm"),
    When(<<Use("out"), When(OK)>>)>> \o OK
sigar_cpu_list_get(global, joyent) == <<If(ReturnCall(joyent), ReturnCall(global))>>

sigar_uptime_get == OK
sigar_loadavg_get == <<Call("sigar_kstat_update", PassOn), If(<< >>, Fail), Try(Fail)>> \o OK
sigar_system_stats_get ==
  <<CallOn("sigar_cpu_list_get(own)", "cpulist", NotImpl), While(<<Use("ks")>>)>> \o OK

sigar_cpu_info_list_get ==
  <<Call("sigar_kstat_update", PassOn), While(<<Use("ks"), Try(<<Continue>>), Break>>), When(Fail),
    Do("sigar_cpu_info_list_create"), Alloc("chips"),
    While(<<Do("get_chip_id"), Use("chips"), When(<<Continue>>), Grow("sigar_cpu_info_list_grow"),
            When(<<Do("get_chip_brand")>>)>>),
    Free("chips")>> \o OK

sigar_os_sys_info_get == OK
sigar_sys_info_get_uuid == NotImpl
sigar_os_is_in_container == OK

-----------------------------------------------------------------------------
(* Processes.                                                              *)

\* CHECK_PSYM: three symbols are checked; the others may be missing.
sigar_init_libproc ==
  LET check == Try(<<Free("plib"), Null("plib")>> \o NotImpl)
  IN <<IfNull("plib", << >>, OK), Get("plib", NotImpl), If(<<Set("psyms")>>, <<Null("psyms")>>),
       check, check, check>> \o OK
sigar_pgrab == <<Get("phandle", Fail)>> \o OK

sigar_os_proc_list_get == ReturnCall("sigar_proc_list_procfs_get")
sigar_proc_mem_get ==
  <<Call("sigar_proc_psinfo_get", PassOn), Use("psinfo"), Do("sigar_proc_usage_get")>> \o OK
sigar_proc_cumulative_disk_io_get == <<Call("sigar_proc_usage_get", PassOn)>> \o OK
sigar_proc_cred_get == <<Call("sigar_proc_psinfo_get", PassOn), Use("psinfo")>> \o OK
sigar_proc_time_get ==
  <<Call("sigar_proc_usage_get", PassOn), When(<<Call("sigar_proc_status_get", PassOn)>>)>> \o OK
sigar_proc_state_get ==
  <<Call("sigar_proc_psinfo_get", PassOn), Use("psinfo"), Do("sigar_proc_fd_get")>> \o OK

\* The output of ps is kept in the cache sigar->pargs.
ucb_ps_args_get ==
  <<Lazy("pargs"), Use("pargs"),
    When(<<Get("ps", Fail), Call("sigar_skip_file_lines", <<Free("ps")>> \o Fail), Free("ps"), When(Fail)>>),
    While(<<Grow("sigar_proc_args_grow")>>)>> \o OK

\* pread(...) <= 0 with an unsigned result: -1 is not noticed.
Pread(x, fail) == If(<<Set(x)>>, <<If(fail, << >>)>>)
sigar_os_proc_args_get ==
  LET fail == <<Free("as_fd"), Free("argvp")>> \o Fail
  IN <<Call("sigar_proc_psinfo_get", PassOn), Use("psinfo"), When(OK),
       When(<<If(ReturnCall("ucb_ps_args_get"), Fail)>>),
       Get("as_fd", <<If(ReturnCall("ucb_ps_args_get"), Fail)>>),
       Null("argvp"), When(<<Alloc("argvp")>>), Pread("argv", fail),
       While(<<Use("argv"), Pread("arg", fail), Use("arg"), Grow("sigar_proc_args_grow")>>),
       Free("argvp"), Free("as_fd")>> \o OK
sigar_proc_env_get ==
  LET fail == <<Free("as_fd")>> \o Fail
  IN <<Call("sigar_proc_psinfo_get", PassOn), Use("psinfo"), Get("as_fd", Fail),
       Pread("offsets", fail), Use("offsets"),
       While(<<Pread("env", fail), Use("env"), When(<<Break>>), When(<<Break>>)>>),
       Free("as_fd")>> \o OK
sigar_proc_fd_get == ReturnCall("sigar_proc_fd_count")

sigar_proc_path_exe_get == <<Do("sigar_elf_file_guess_arch")>> \o OK
proc_module_get_exe == Fail
sigar_which_exe_get == Fail
sigar_proc_exe_get ==
  <<When(ReturnCall("sigar_proc_path_exe_get")), Call("sigar_init_libproc", PassOn),
    If(<<Call("sigar_dlinfo_modules(exe)", << >>), IfOk(<<When(<<Do("sigar_which_exe_get")>>)>>, << >>)>>,
       <<Var("phandle"), Call("sigar_pgrab", << >>), IfOk(<<Use("psyms"), Free("phandle")>>, << >>)>>),
    Use("psyms")>> \o OK

sigar_read_xmaps(getter) == <<While(<<When(<<Continue>>), When(<<Continue>>), Call(getter, PassOn)>>)>> \o OK
sigar_pgrab_modules(read_xmaps) ==
  <<Get("xmap_fd", Fail), Try(<<Free("xmap_fd")>> \o Fail),
    Call("sigar_init_libproc", <<Free("xmap_fd")>> \o PassOn),
    Var("phandle"), Call("sigar_pgrab", <<Free("xmap_fd")>> \o PassOn),
    While(<<Try(<<Free("xmap_fd"), Free("phandle")>> \o Fail), Call(read_xmaps, <<Break>>)>>),
    Free("xmap_fd"), Free("phandle")>> \o OK
sigar_proc_modules_get(dlinfo, pgrab) == <<If(ReturnCall(dlinfo), ReturnCall(pgrab))>>
sigar_thread_cpu_get == <<If(NotImpl, OK)>>

find_port == <<Get("fd_dir", OK), While(<<When(<<Continue>>), When(<<Break>>)>>), Free("fd_dir")>> \o OK
sigar_proc_port_get ==
  <<When(NotImpl), Call("sigar_init_libproc", NotImpl),
    CallOn("sigar_proc_list_get", "port_pids", PassOn),
    While(<<When(<<Continue>>), Var("phandle"), Call("sigar_pgrab", <<Continue>>), Use("psyms"),
            When(<<Do("find_port")>>), Free("phandle"), When(<<Break>>)>>),
    DoOn("sigar_proc_list_destroy", "port_pids"), If(OK, Fail)>>

-----------------------------------------------------------------------------
(* File systems.                                                           *)

sigar_file_system_list_get ==
  <<Get("mnttab", Fail), Do("sigar_file_system_list_create"),
    While(<<When(<<Continue>>), Grow("sigar_file_system_list_grow")>>), Free("mnttab")>> \o OK

\* OK: not NULL; the caller frees mapping.
get_fsdev_paths ==
  <<Get("path_to_inst", Fail), Alloc("mapping"),
    While(<<When(<<Continue>>), Use("mapping"), When(<<Break>>)>>), Free("path_to_inst")>> \o OK
create_fsdev_cache ==
  <<Alloc("fsdev"), CallOn("sigar_file_system_list_get", "fslist", PassOn),
    Var("mapping"), Call("get_fsdev_paths", <<DoOn("sigar_file_system_list_destroy", "fslist")>> \o Fail),
    While(<<When(<<Continue>>), Use("mapping"), When(<<Use("fsdev")>>)>>),
    Free("mapping"), DoOn("sigar_file_system_list_destroy", "fslist")>> \o OK

sigar_kstat_disk_usage_get ==
  <<Call("sigar_kstat_update", PassOn), While(<<When(<<Continue>>), When(OK)>>)>> \o Fail
sigar_disk_usage_get ==
  <<When(<<Use("zonenm"), Use("kc"), When(Fail), If(Fail, OK)>>),
    IfNull("fsdev", <<Call("create_fsdev_cache", OK)>>, << >>),
    If(<<Try(Fail), Use("fsdev"), If(<<Let("ERR")>>, <<Call("sigar_kstat_disk_usage_get", << >>)>>)>>,
       <<Call("sigar_kstat_disk_usage_get", << >>), IfOk(<<Use("fsdev")>>, << >>)>>),
    When(OK), ReturnStatus>>
sigar_file_system_usage_get ==
  <<Call("sigar_statvfs", PassOn), When(<<Do("sigar_disk_usage_get")>>)>> \o OK

-----------------------------------------------------------------------------
(* The network.                                                            *)

sigar_net_route_list_get ==
  <<Do("sigar_net_route_list_create"),
    Walk(<<When(<<Continue>>), Use("mib2_db"), While(<<When(<<Continue>>), Grow("sigar_net_route_list_grow")>>)>>)>>
  \o WalkEnd
sigar_arp_list_get ==
  <<Do("sigar_arp_list_create"),
    Walk(<<When(<<Continue>>), Use("mib2_db"), While(<<Grow("sigar_arp_list_grow")>>)>>)>> \o WalkEnd

sigar_net_ifstat_get_any == <<Call("sigar_kstat_update", PassOn), When(Fail), Try(Fail)>> \o OK
sigar_net_ifstat_get_lo == ReturnCall("sigar_net_ifstat_get_any")
sigar_net_interface_stat_get ==
  <<If(ReturnCall("sigar_net_ifstat_get_lo"), ReturnCall("sigar_net_ifstat_get_any"))>>
sigar_net_interface_ipv6_config_get == <<Get("sock6", Fail), Free("sock6")>> \o OK

\* The entries of one message; both tables are walked alike.
tcp_connection_get(add_connection) ==
  <<While(<<Use("mib2_db"), When(<<Call(add_connection, PassOn)>>)>>)>> \o OK
udp_connection_get(add_connection) ==
  <<While(<<Use("mib2_db"), When(<<Call(add_connection, PassOn)>>)>>)>> \o OK
sigar_net_connection_walk(tcp, udp) ==
  <<Walk(<<If(<<Call(tcp, <<Break>>)>>, <<When(<<Call(udp, <<Break>>)>>)>>)>>)>> \o WalkEnd
sigar_net_listeners_get ==
  <<Call("sigar_net_connection_walk(list)", PassOn), While(<<Use("out"), Do("sigar_proc_port_get")>>)>> \o OK

\* The stream is left where the walk stopped.
sigar_tcp_get == <<Walk(<<When(<<Break>>)>>), IfOk(<<Use("mib2_db")>> \o OK, NotImpl)>>

sigar_nfs_get == <<Call("sigar_kstat_update", PassOn), When(NotImpl), Try(Fail)>> \o OK
sigar_nfs_client_v2_get == ReturnCall("sigar_nfs_get")
sigar_nfs_server_v2_get == ReturnCall("sigar_nfs_get")
sigar_nfs_client_v3_get == ReturnCall("sigar_nfs_get")
sigar_nfs_server_v3_get == ReturnCall("sigar_nfs_get")

-----------------------------------------------------------------------------
(* The functions by name.                                                  *)

Fns ==
  [sigar_os_open |-> sigar_os_open, sigar_os_close |-> sigar_os_close,
   sigar_get_kstats |-> sigar_get_kstats, sigar_kstat_update |-> sigar_kstat_update,
   sigar_proc_psinfo_get |-> sigar_proc_psinfo_get, sigar_proc_usage_get |-> sigar_proc_usage_get,
   sigar_proc_status_get |-> sigar_proc_status_get, close_mib2 |-> close_mib2, open_mib2 |-> open_mib2,
   get_mib2 |-> get_mib2, zone_mem_get |-> zone_mem_get, sigar_mem_get |-> sigar_mem_get,
   sigar_swap_get |-> sigar_swap_get, get_chip_id |-> get_chip_id, get_chip_brand |-> get_chip_brand,
   sigar_cpu_get |-> sigar_cpu_get, sigar_uptime_get |-> sigar_uptime_get,
   sigar_loadavg_get |-> sigar_loadavg_get, sigar_system_stats_get |-> sigar_system_stats_get,
   sigar_cpu_info_list_get |-> sigar_cpu_info_list_get, sigar_os_sys_info_get |-> sigar_os_sys_info_get,
   sigar_sys_info_get_uuid |-> sigar_sys_info_get_uuid,
   sigar_os_is_in_container |-> sigar_os_is_in_container, sigar_init_libproc |-> sigar_init_libproc,
   sigar_pgrab |-> sigar_pgrab, sigar_os_proc_list_get |-> sigar_os_proc_list_get,
   sigar_proc_mem_get |-> sigar_proc_mem_get,
   sigar_proc_cumulative_disk_io_get |-> sigar_proc_cumulative_disk_io_get,
   sigar_proc_cred_get |-> sigar_proc_cred_get, sigar_proc_time_get |-> sigar_proc_time_get,
   sigar_proc_state_get |-> sigar_proc_state_get, ucb_ps_args_get |-> ucb_ps_args_get,
   sigar_os_proc_args_get |-> sigar_os_proc_args_get, sigar_proc_env_get |-> sigar_proc_env_get,
   sigar_proc_fd_get |-> sigar_proc_fd_get, sigar_proc_path_exe_get |-> sigar_proc_path_exe_get,
   proc_module_get_exe |-> proc_module_get_exe, sigar_which_exe_get |-> sigar_which_exe_get,
   sigar_proc_exe_get |-> sigar_proc_exe_get, sigar_thread_cpu_get |-> sigar_thread_cpu_get,
   find_port |-> find_port, sigar_proc_port_get |-> sigar_proc_port_get,
   sigar_file_system_list_get |-> sigar_file_system_list_get, get_fsdev_paths |-> get_fsdev_paths,
   create_fsdev_cache |-> create_fsdev_cache, sigar_kstat_disk_usage_get |-> sigar_kstat_disk_usage_get,
   sigar_disk_usage_get |-> sigar_disk_usage_get,
   sigar_file_system_usage_get |-> sigar_file_system_usage_get,
   sigar_net_route_list_get |-> sigar_net_route_list_get, sigar_arp_list_get |-> sigar_arp_list_get,
   sigar_net_ifstat_get_any |-> sigar_net_ifstat_get_any,
   sigar_net_ifstat_get_lo |-> sigar_net_ifstat_get_lo,
   sigar_net_interface_stat_get |-> sigar_net_interface_stat_get,
   sigar_net_interface_ipv6_config_get |-> sigar_net_interface_ipv6_config_get,
   sigar_net_listeners_get |-> sigar_net_listeners_get, sigar_tcp_get |-> sigar_tcp_get,
   sigar_nfs_get |-> sigar_nfs_get, sigar_nfs_client_v2_get |-> sigar_nfs_client_v2_get,
   sigar_nfs_server_v2_get |-> sigar_nfs_server_v2_get,
   sigar_nfs_client_v3_get |-> sigar_nfs_client_v3_get,
   sigar_nfs_server_v3_get |-> sigar_nfs_server_v3_get]
  @@ "sigar_cpu_list_get_global" :> sigar_cpu_list_get_global(FALSE)
  @@ "sigar_cpu_list_get_global(own)" :> sigar_cpu_list_get_global(TRUE)
  @@ "sigar_cpu_list_get_joyent" :> sigar_cpu_list_get_joyent(FALSE)
  @@ "sigar_cpu_list_get_joyent(own)" :> sigar_cpu_list_get_joyent(TRUE)
  @@ "sigar_cpu_list_get" :> sigar_cpu_list_get("sigar_cpu_list_get_global", "sigar_cpu_list_get_joyent")
  @@ "sigar_cpu_list_get(own)" :>
       sigar_cpu_list_get("sigar_cpu_list_get_global(own)", "sigar_cpu_list_get_joyent(own)")
  @@ "sigar_dlinfo_modules(exe)" :> Common!sigar_dlinfo_modules("proc_module_get_exe")
  @@ "sigar_read_xmaps" :> sigar_read_xmaps("module_getter")
  @@ "sigar_read_xmaps(self)" :> sigar_read_xmaps("proc_module_get_self")
  @@ "sigar_pgrab_modules" :> sigar_pgrab_modules("sigar_read_xmaps")
  @@ "sigar_proc_modules_get" :> sigar_proc_modules_get("sigar_dlinfo_modules", "sigar_pgrab_modules")
  @@ "sigar_proc_modules_get(self)" :> ReturnCall("sigar_dlinfo_modules(self)")
  @@ "tcp_connection_get(list)" :> tcp_connection_get("net_connection_list_walker")
  @@ "udp_connection_get(list)" :> udp_connection_get("net_connection_list_walker")
  @@ "tcp_connection_get(stat)" :> tcp_connection_get("net_stat_walker")
  @@ "udp_connection_get(stat)" :> udp_connection_get("net_stat_walker")
  @@ "tcp_connection_get(port)" :> tcp_connection_get("net_stat_port_walker")
  @@ "udp_connection_get(port)" :> udp_connection_get("net_stat_port_walker")
  @@ "sigar_net_connection_walk(list)" :>
       sigar_net_connection_walk("tcp_connection_get(list)", "udp_connection_get(list)")
  @@ "sigar_net_connection_walk(stat)" :>
       sigar_net_connection_walk("tcp_connection_get(stat)", "udp_connection_get(stat)")
  @@ "sigar_net_connection_walk(port)" :>
       sigar_net_connection_walk("tcp_connection_get(port)", "udp_connection_get(port)")
  @@ "sigar_net_listeners_get(list)" :> sigar_net_listeners_get
  @@ "hwaddr_lookup" :> Common!hwaddr_libdlpi_lookup
  @@ Common!Fns

Api ==
  [f \in {"sigar_system_stats_get", "sigar_os_is_in_container", "sigar_proc_modules_get",
          "sigar_proc_cumulative_disk_io_get", "sigar_thread_cpu_get", "sigar_nfs_client_v2_get",
          "sigar_nfs_server_v2_get", "sigar_nfs_client_v3_get", "sigar_nfs_server_v3_get"} |-> ""]
  @@ Common!Api

-----------------------------------------------------------------------------
(* Where the code departs from the properties of SigarCalls.               *)

\* A walk over the stream that fails leaves the list (solaris_sigar.c:2273,
\* 2896); an enlarged buffer that could not be had loses the old one
\* (get_mib2.c:228); a caller does not destroy the pids (2990).
Leaks ==
  Common!Leaks \cup Common!IfConfLeaks \cup
  {<<"sigar_net_route_list_get", "list">>, <<"sigar_get_default_gateway", "routelist">>,
   <<"sigar_arp_list_get", "list">>, <<"get_mib2", "mib2_db">>,
   <<"sigar_proc_port_get", "port_pids">>}

\* The process information is read after a failed call for the same pid
\* (procfs.c:37); pread's error is missed (solaris_sigar.c:1204, 1216, 1262,
\* 1274); symbols of libproc are called unchecked (1417, 2928); sigar_tcp_get
\* leaves a stream it could not set up open (2666).
Faults ==
  Common!IfConfFaults \cup
  ({"sigar_os_proc_args_get", "sigar_proc_cred_get", "sigar_proc_env_get", "sigar_proc_mem_get",
    "sigar_proc_state_get"} \X {"psinfo"}) \cup
  ({"sigar_os_proc_args_get"} \X {"arg", "argv"}) \cup
  ({"sigar_proc_env_get"} \X {"env", "offsets"}) \cup
  ({"sigar_proc_exe_get", "sigar_proc_port_get"} \X {"psyms"}) \cup
  {<<"get_mib2", "mib2_smb">>}

\* psinfo holds nothing before the first read that succeeds.
Dangles == {"ifconf_buf", "psinfo"}

\* Only when close(2) fails.
Kept == {"mib2_sd", "mib2_smb", "mib2_db"}
==============================================================================
