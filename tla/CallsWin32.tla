------------------------------ MODULE CallsWin32 ------------------------------
(***************************************************************************)
(* The Windows functions: performance counters read from the registry into *)
(* one buffer, DLLs loaded when a function first needs them, WMI.          *)
(***************************************************************************)
EXTENDS SigarStatements, TLC

Common == INSTANCE CallsCommon

\* The DLLs of struct sigar_t.  Those in Mapped the library is itself linked
\* with; the handle m of another that could not be loaded ("dont try again")
\* is set to INVALID_HANDLE_VALUE, which is not null: Invalid(m) is set then.
DllModules == {"wtsapi", "iphlpapi", "advapi", "ntdll", "psapi", "winsta", "kernel", "mpr"}
Mapped == {"advapi", "kernel", "ntdll"}
Invalid(m) == m \o ".invalid"

\* The DLLs some function of which is called without a test that it was
\* found: Funcs(m) is set when they all were.
Untested == {"wtsapi", "psapi"}
Funcs(m) == m \o ".funcs"

\* The registry key, which sigar_os_close always closes, is left out.
\* mib_entry is a value in netif_mib_rows; pinfo, the pid whose information
\* was read last.
Fields ==
  Common!BaseFields \cup DllModules \cup {Invalid(m) : m \in DllModules} \cup {Funcs(m) : m \in Untested} \cup
  {"perfbuf", "wmi_handle", "locator", "wmi_services", "rma_process_queue", "pinfo", "ws_version",
   "netif_mib_rows", "mib_entry", "netif_addr_rows", "netif_adapters", "netif_names"}

-----------------------------------------------------------------------------
(* The handle and the DLLs.                                                *)

\* A DLL is loaded once.  all: a function that is missing ends the lookup,
\* and this call, but not the next one, fails.
sigar_dllmod_init(m, all) ==
  <<IfNull(Invalid(m), << >>, Fail), IfNull(m, << >>, OK),
    IF m \in Mapped THEN Alloc(m) ELSE Get(m, <<Set(m), Set(Invalid(m))>> \o Fail),
    If(IF m \in Untested THEN <<Set(Funcs(m))>> ELSE << >>, IF all THEN Fail ELSE << >>)>> \o OK

\* The handle of a DLL that was not loaded is freed like the others.
sigar_dllmod_free(m) == <<IfNull(m, << >>, <<Free(m), Null(m)>>)>> \o OK
dllmod_init_ntdll == <<Do("sigar_dllmod_init(ntdll)")>> \o OK

\* if (the function of m) yes else no; if (!function) no; a call of a function
\* of m that is not tested.  A DLL that was not loaded has no functions.
IfFunc(m, yes, no) ==
  LET some == IfNull(Invalid(m), <<IfNull(m, no, <<If(yes, no)>>)>>, no)
  IN IF m \in Untested THEN IfNull(Funcs(m), <<some>>, yes) ELSE some
NoFunc(m, no) == IfFunc(m, << >>, no)
UseFunc(m) == Use(Funcs(m))

sigar_enable_privilege ==
  <<Get("token", Fail), If(<<Let("OK")>>, <<Let("ERR")>>), Free("token"), ReturnStatus>>

\* The module, as it is copied into the handle.
NewDll(m) == <<Null(m), Null(Invalid(m))>> \o (IF m \in Untested THEN <<Null(Funcs(m))>> ELSE << >>)

\* calloc: every field is null.  What RegConnectRegistry returned is returned
\* last, and the handle is complete whatever it was.
sigar_os_open ==
  <<Alloc("sigar"), Null("ifconf_buf"), Null("self_path"), Null("fsdev"), Null("pids"), Null("pids_data"),
    Null("proc_cpu"), Null("net_listen"), Null("net_services_tcp"), Null("net_services_udp"),
    Null("proc_io"), Null("perfbuf"), Null("wmi_handle"), Null("locator"), Null("wmi_services"),
    Null("rma_process_queue"), Null("pinfo"), Null("ws_version"), Null("netif_mib_rows"), Null("mib_entry"),
    Null("netif_addr_rows"), Null("netif_adapters"), Null("netif_names")>>
  \o NewDll("wtsapi") \o NewDll("iphlpapi") \o NewDll("advapi") \o NewDll("ntdll")
  \o NewDll("psapi") \o NewDll("winsta") \o NewDll("kernel") \o NewDll("mpr") \o
  <<Do("sigar_dllmod_init(advapi)"), Do("sigar_enable_privilege"), Do("wmi_handle_open"), If(OK, Fail)>>

sigar_os_close ==
  <<Do("sigar_dllmod_free(wtsapi)"), Do("sigar_dllmod_free(iphlpapi)"), Do("sigar_dllmod_free(advapi)"),
    Do("sigar_dllmod_free(ntdll)"), Do("sigar_dllmod_free(psapi)"), Do("sigar_dllmod_free(winsta)"),
    Do("sigar_dllmod_free(kernel)"), Do("sigar_dllmod_free(mpr)"), Release("perfbuf"),
    Release("ws_version"), Release("netif_mib_rows"), Release("netif_addr_rows"), Release("netif_adapters"),
    Release("netif_names"), Free("sigar"), If(OK, Fail)>>

sigar_wsa_init == <<IfNull("ws_version", <<Get("ws_version", Fail)>>, << >>)>> \o OK
sigar_fqdn_get == <<Call("sigar_wsa_init", PassOn)>> \o Common!sigar_fqdn_get

-----------------------------------------------------------------------------
(* WMI.                                                                    *)

wmi_handle_close ==
  <<IfNull("wmi_services", << >>, <<Free("wmi_services"), Null("wmi_services")>>), Release("locator")>> \o OK

\* The structure itself is not freed when it could not be filled in.
wmi_handle_open ==
  LET err == <<Do("wmi_handle_close"), Null("locator"), Null("wmi_handle")>> \o Fail
  IN <<Alloc("wmi_handle"), Try(err), Try(err), Get("locator", err), Get("wmi_services", err)>> \o OK

wmi_get_proc_string_property ==
  <<IfNull("wmi_handle", Fail, << >>), Use("wmi_services"), Get("obj", Fail), Get("var", << >>),
    IfNull("var", <<Let("ERR")>>, <<If(<<Let("ERR")>>, <<Let("OK")>>), Free("var")>>),
    Free("obj"), ReturnStatus>>
wmi_get_proc_executable_path == ReturnCall("wmi_get_proc_string_property")
wmi_get_proc_command_line == ReturnCall("wmi_get_proc_string_property")

\* wmi_enum is the caller's.
wmi_query ==
  <<Null("wmi_enum"),
    IfNull("wmi_handle", << >>,
      <<Alloc("query_cpy"), Use("wmi_services"), Get("wmi_enum", << >>), Free("query_cpy")>>)>> \o OK

\* A value that is a string is not cleared.
wmi_query_sum_u64 ==
  <<Var("wmi_enum"), Do("wmi_query"), IfNull("wmi_enum", Fail, << >>), Alloc("attrib_cpy"),
    While(<<Alloc("wmi_obj"), Null("val"), When(<<When(<<Alloc("val")>>)>>), Free("wmi_obj")>>),
    Free("attrib_cpy"), Free("wmi_enum")>> \o OK
wmi_query_sum_u32 == ReturnCall("wmi_query_sum_u64")

sigar_proc_args_wmi_get ==
  <<Call("wmi_get_proc_command_line", PassOn)>> \o ReturnCall("sigar_parse_proc_args")
sigar_proc_exe_wmi_get == <<Call("wmi_get_proc_executable_path", PassOn)>> \o OK

-----------------------------------------------------------------------------
(* Performance counters.                                                   *)

\* Growing the buffer may move it: what pointed into it points nowhere.
perfbuf_init == <<Lazy("perfbuf")>> \o OK
perfbuf_grow == <<Use("perfbuf"), When(<<Var("object")>>)>> \o OK

\* NONE: there is no object with instances, and err is SIGAR_OK.
get_perf_object_inst(inst) ==
  <<Do("perfbuf_init"),
    Forever(<<Use("perfbuf"), If(<<Break>>, << >>), If(<<Do("perfbuf_grow")>>, Fail)>>),
    Use("perfbuf"), When(Fail)>>
  \o (IF inst = 1 THEN <<When(<<Return("NONE")>>)>> ELSE << >>) \o OK

\* if (!object) return err.
NoObject == <<IfStatus("NONE", OK, PassOn)>>

get_mem_counters == <<Call("get_perf_object_inst(0)", NoObject), Use("perfbuf"), While(<<When(OK)>>)>> \o OK
sigar_mem_get ==
  <<Do("sigar_dllmod_init(kernel,all)"), IfFunc("kernel", <<Try(Fail)>>, << >>), Do("get_mem_counters")>> \o OK
sigar_swap_get == sigar_mem_get

\* Without the counter, the seconds since the start are returned as status.
sigar_uptime_get ==
  <<Call("get_perf_object_inst(0)", NoObject), Use("perfbuf"), While(<<When(OK)>>), If(OK, Fail)>>

\* What the second query of the same counters leaves of the first one.
get_disk_instance == <<Call("get_perf_object_inst(1)", PassOn), Use("perfbuf"), When(Fail)>> \o OK
sigar_disk_usage_get ==
  <<Call("get_perf_object_inst(1)", NoObject), Set("object"), Call("get_disk_instance", NoObject),
    While(<<Use("object"), When(OK)>>), Use("object")>> \o Fail
sigar_file_system_usage_get == <<Try(Fail)>> \o ReturnCall("sigar_disk_usage_get")

get_cpu_instance == <<Call("get_perf_object_inst(1)", PassOn), Use("perfbuf")>> \o OK
get_idle_cpu ==
  <<When(OK), Do("sigar_dllmod_init(ntdll)"), NoFunc("ntdll", Fail), When(Fail), When(Fail)>> \o OK
sigar_cpu_perflib_get == <<Call("get_cpu_instance", NoObject), Use("perfbuf"), Do("get_idle_cpu")>> \o OK
sigar_cpu_ntsys_get == <<When(Fail)>> \o OK
sigar_cpu_get ==
  <<Do("sigar_dllmod_init(ntdll)"),
    IfFunc("ntdll", ReturnCall("sigar_cpu_ntsys_get"), ReturnCall("sigar_cpu_perflib_get"))>>
sigar_cpu_list_perflib_get ==
  <<Call("get_cpu_instance", NoObject), Do("sigar_cpu_list_create"),
    While(<<Grow("sigar_cpu_list_grow"), Use("perfbuf"), Do("get_idle_cpu")>>)>> \o OK
sigar_cpu_list_ntsys_get ==
  <<When(Fail), Do("sigar_cpu_list_create"), While(<<Grow("sigar_cpu_list_grow")>>)>> \o OK
sigar_cpu_list_get ==
  <<Do("sigar_dllmod_init(ntdll)"),
    IfFunc("ntdll", ReturnCall("sigar_cpu_list_ntsys_get"), ReturnCall("sigar_cpu_list_perflib_get"))>>

\* The average over the last samples of the processor queue is kept.
sigar_loadavg_get ==
  <<Call("wmi_query_sum_u32", << >>), IfOk(<<Lazy("rma_process_queue"), Use("rma_process_queue")>>, << >>),
    ReturnStatus>>
sigar_system_stats_get == <<Do("wmi_query_sum_u32")>> \o ReturnCall("wmi_query_sum_u32")

-----------------------------------------------------------------------------
(* Processes.                                                              *)

sigar_proc_list_get_perf ==
  <<Call("get_perf_object_inst(1)", NoObject),
    While(<<Use("perfbuf"), When(<<Continue>>), Grow("sigar_proc_list_grow")>>)>> \o OK
sigar_os_proc_list_get ==
  <<Do("sigar_dllmod_init(psapi)"),
    IfFunc("psapi",
      <<Do("perfbuf_init"), Forever(<<Use("perfbuf"), Try(Fail), If(<<Do("perfbuf_grow")>>, <<Break>>)>>),
        While(<<Use("perfbuf"), When(<<Continue>>), Grow("sigar_proc_list_grow")>>)>> \o OK,
      ReturnCall("sigar_proc_list_get_perf"))>>

\* The pid is noted before its process is looked for, so that a second call
\* answers from what was there.
get_proc_info ==
  <<IfNull("pinfo", << >>, <<When(OK)>>), Call("get_perf_object_inst(1)", NoObject), Set("pinfo"),
    While(<<Use("perfbuf"), If(<<Continue>>, OK)>>)>> \o Fail
sigar_proc_mem_get == <<Call("get_proc_info", PassOn)>> \o OK
sigar_proc_cumulative_disk_io_get == <<Call("get_proc_info", PassOn)>> \o OK
sigar_proc_state_get == <<Call("get_proc_info", PassOn)>> \o OK
sigar_proc_fd_get == <<Null("pinfo"), Call("get_proc_info", PassOn)>> \o OK

sigar_proc_cred_name_get ==
  <<Get("proc", Fail), Get("token", <<Free("proc")>> \o Fail), Free("proc"),
    Null("user"), When(<<Get("user", << >>)>>), Release("user"), When(<<Free("token")>> \o Fail),
    Null("group"), When(<<Get("group", << >>)>>), Release("group"), Free("token"), If(OK, Fail)>>
sigar_proc_cred_get == NotImpl
sigar_proc_time_get ==
  <<Get("proc", Fail), If(<<Let("OK")>>, <<Let("ERR")>>), Free("proc"), IfOk(<< >>, PassOn)>> \o OK
sigar_proc_kill ==
  <<Get("proc", Fail), If(<<Let("OK")>>, <<Let("ERR")>>), Free("proc"), ReturnStatus>>

\* The process environment block of a process opened by the caller.
sigar_pbi_get ==
  <<Do("dllmod_init_ntdll"), NoFunc("ntdll", NotImpl), Try(Fail), When(Fail), Try(Fail)>> \o OK
sigar_rtl_get == <<Call("sigar_pbi_get", PassOn), Try(Fail)>> \o OK
sigar_parse_proc_args ==
  <<Get("args", OK), While(<<Use("args"), Grow("sigar_proc_args_grow")>>), Free("args")>> \o OK
sigar_proc_args_peb_get ==
  <<Call("sigar_rtl_get", PassOn), When(Fail), Try(Fail)>> \o ReturnCall("sigar_parse_proc_args")
sigar_proc_env_peb_get == <<Call("sigar_rtl_get", PassOn), Try(Fail)>> \o OK

\* A process that cannot be opened has no arguments, and that is no error
\* unless WMI is asked (in the builds that do) and fails.
sigar_remote_proc_args_get ==
  <<Let("OK"), Get("proc", << >>),
    IfNull("proc", << >>,
      <<Call("sigar_proc_args_peb_get", << >>), Free("proc"), IfOk(PassOn, << >>)>>),
    IfNull("wmi_handle", << >>, <<When(<<Call("sigar_proc_args_wmi_get", << >>)>>)>>), ReturnStatus>>
sigar_os_proc_args_get ==
  <<If(ReturnCall("sigar_parse_proc_args"), ReturnCall("sigar_remote_proc_args_get"))>>

sigar_proc_env_parse == <<While(<<When(<<Continue>>), When(Fail)>>)>> \o OK
sigar_local_proc_env_get == <<Alloc("env"), Do("sigar_proc_env_parse"), Free("env")>> \o OK
sigar_remote_proc_env_get ==
  <<Get("proc", Fail), Call("sigar_proc_env_peb_get", << >>), Free("proc"),
    IfOk(<<While(<<Call("sigar_proc_env_parse", <<Let("OK"), Break>>)>>)>>, << >>), ReturnStatus>>
sigar_proc_env_get ==
  <<If(<<If(<<Try(<<If(OK, Fail)>>), When(Fail)>> \o OK, ReturnCall("sigar_local_proc_env_get"))>>,
       ReturnCall("sigar_remote_proc_env_get"))>>
sigar_proc_exe_get == ReturnCall("sigar_proc_exe_wmi_get")

\* The functions of psapi are not tested: a first call finds them all.
sigar_proc_modules_get(getter) ==
  <<Call("sigar_dllmod_init(psapi,all)", NotImpl), Get("proc", Fail), UseFunc("psapi"),
    Try(<<Free("proc")>> \o Fail),
    While(<<UseFunc("psapi"), When(<<Continue>>), Call(getter, <<Break>>)>>), Free("proc")>> \o OK
sigar_thread_cpu_get == <<When(NotImpl), Try(Fail)>> \o OK

-----------------------------------------------------------------------------
(* File systems and files.                                                 *)

sigar_file_system_list_get ==
  <<Do("sigar_dllmod_init(mpr,all)"), When(Fail), Do("sigar_file_system_list_create"),
    While(<<When(<<Continue>>), Grow("sigar_file_system_list_grow")>>)>> \o OK
sigar_file_system_ping == OK

get_security_info == <<Get("pdesc", Fail), Get("world", << >>), Release("world"), Free("pdesc")>> \o OK
fileattrs_get == <<Try(Fail), Get("file", << >>), Release("file"), Do("get_security_info")>> \o OK
sigar_file_attrs_get == ReturnCall("fileattrs_get")
sigar_link_attrs_get == ReturnCall("fileattrs_get")

\* As elsewhere, but the directory is tested first and the end of the walk
\* may be an error.
dir_stat_get(dir, sub) ==
  <<Try(Fail), Get(dir, Fail), While(<<When(<<Continue>>), Try(<<Continue>>), When(sub)>>), Free(dir),
    When(Fail)>> \o OK

sigar_file_version_get ==
  <<Try(Fail), Alloc("data"), If(<<Let("OK")>>, <<Let("ERR")>>), IfOk(<<Use("data")>>, << >>),
    Free("data"), ReturnStatus>>

-----------------------------------------------------------------------------
(* The system.                                                             *)

sigar_os_sys_info_get == OK
sigar_sys_info_get_uuid == NotImpl
sigar_sys_info_get == <<Do("sigar_os_sys_info_get"), Do("sigar_sys_info_get_uuid")>> \o OK
sigar_os_is_in_container == OK
sigar_resource_limit_get == OK
sigar_password_get == <<While(<<When(Fail)>>)>> \o OK

\* key is used whether or not it could be opened.
sigar_cpu_info_get ==
  <<Var("key"), When(<<Alloc("key")>>), Use("key"), Try(<<Free("key")>> \o Fail),
    Get("cpu", <<Free("key")>> \o Fail), Free("key"), Free("cpu")>> \o OK
sigar_cpu_info_list_get ==
  <<Do("sigar_cpu_info_list_create"), Call("sigar_cpu_info_get", PassOn),
    While(<<Grow("sigar_cpu_info_list_grow"), When(<<Continue>>)>>)>> \o OK

-----------------------------------------------------------------------------
(* Who is logged in, and the services.                                     *)

sigar_who_net_sessions ==
  <<Null("buffer"),
    Forever(<<Get("buffer", <<Break>>), While(<<Grow("sigar_who_list_grow")>>),
              Free("buffer"), Null("buffer"), If(<< >>, <<Break>>)>>),
    Release("buffer")>> \o OK
get_logon_info == <<Get("key", Fail), Free("key")>> \o OK
sigar_who_registry ==
  <<NoFunc("advapi", Fail), Get("users", Fail),
    Forever(<<Try(<<Break>>), When(<<Continue>>), Get("sid", <<Continue>>),
              When(<<Grow("sigar_who_list_grow"), Do("get_logon_info")>>), Free("sid")>>),
    Free("users")>> \o OK

\* Nor are the functions of wtsapi tested.
WtsQuery == <<Get("buffer", << >>), Release("buffer")>>
sigar_who_wts ==
  <<Call("sigar_dllmod_init(wtsapi,all)", Fail), Do("sigar_dllmod_init(winsta)"), UseFunc("wtsapi"),
    Get("sessions", Fail),
    While(<<When(<<Continue>>)>> \o WtsQuery \o <<When(<<Continue>>), Grow("sigar_who_list_grow")>>
          \o WtsQuery \o WtsQuery),
    Free("sessions")>> \o OK
sigar_who_list_get_win32 ==
  <<Do("sigar_who_net_sessions"), Do("sigar_who_registry"), Do("sigar_who_wts")>> \o OK
sigar_who_list_get ==
  <<Do("sigar_who_list_create"), Do("sigar_who_utmp"), Do("sigar_who_list_get_win32")>> \o OK

sigar_service_pid_get ==
  <<NoFunc("advapi", NotImpl), Get("mgr", Fail), Get("svc", <<Free("mgr")>> \o Fail),
    If(<<Let("OK")>>, <<Let("ERR")>>), Free("svc"), Free("mgr"), ReturnStatus>>
ptql_service_query_config ==
  <<Get("svc", Fail), If(<<Let("OK")>>, <<Let("ERR")>>), Free("svc"), ReturnStatus>>

\* The manager and the services belong to the caller's structure.
sigar_services_status_get ==
  <<IfNull("ss_handle", <<Get("ss_handle", Fail)>>, << >>),
    Try(<<When(Fail), Lazy("ss_services"), Try(Fail)>>)>> \o OK
sigar_services_status_close ==
  <<Release("ss_handle"), Release("ss_services"), Null("ss_handle"), Null("ss_services")>> \o OK
sigar_services_walk ==
  <<Null("ss_handle"), Null("ss_services"), Call("sigar_services_status_get", PassOn),
    IfNull("ss_services", << >>,
      <<While(<<Use("ss_services"),
                When(<<Call("ptql_service_query_config", <<Continue>>)>>),
                When(<<Do("sigar_service_pid_get")>>),
                When(<<Call("add_service", <<Break>>)>>)>>)>>),
    Do("sigar_services_status_close")>> \o OK
add_service == <<If(OK, Fail)>>
sigar_services_query ==
  <<When(ReturnCall("sigar_services_walk")), Get("query", Fail),
    If(<<Call("sigar_services_walk", << >>)>>, <<Let("ERR")>>), Free("query"), ReturnStatus>>

-----------------------------------------------------------------------------
(* The network.                                                            *)

sigar_netif_cache_new == <<Do("sigar_dllmod_init(iphlpapi)")>> \o OK

\* Tables read into ifconf_buf, which grows when it is too small.
IfConfTable ==
  <<Do("sigar_dllmod_init(iphlpapi)"), NoFunc("iphlpapi", NotImpl),
    IfNull("ifconf_buf", <<Try(Fail), Alloc("ifconf_buf")>>, <<Use("ifconf_buf")>>), Try(Fail)>> \o OK
sigar_get_adapters_info == IfConfTable
sigar_get_ipaddr_table == IfConfTable
sigar_get_if_table == IfConfTable

\* addrs is a buffer of the caller's own, or aa, which is ifconf_buf until it
\* is reallocated: then the handle still has the old one.
sigar_get_adapters_addresses(addrs) ==
  <<Do("sigar_dllmod_init(iphlpapi)"), NoFunc("iphlpapi", NotImpl)>>
  \o (IF addrs = "address_list" THEN <<Try(Fail), Alloc(addrs)>>
      ELSE <<IfNull("ifconf_buf", <<Try(Fail), Alloc(addrs)>>,
               <<Use("ifconf_buf"), When(<<Free("ifconf_buf"), Alloc(addrs)>>)>>)>>)
  \o <<Try(Fail)>> \o OK

sigar_get_netif_ipaddr ==
  <<IfNull("netif_addr_rows",
      <<Do("sigar_netif_cache_new"), Alloc("netif_addr_rows"), Call("sigar_get_ipaddr_table", PassOn),
        While(<<Use("ifconf_buf"), When(<<Continue>>), Use("netif_addr_rows")>>)>>,
      <<Use("netif_addr_rows")>>),
    If(OK, Fail)>>

sigar_net_info_get ==
  <<Do("sigar_dllmod_init(iphlpapi)"), NoFunc("iphlpapi", NotImpl), Try(Fail), Alloc("info"),
    Try(<<Free("info")>> \o Fail), Use("info"), Free("info"),
    Call("sigar_get_adapters_info", OK), Use("ifconf_buf")>> \o OK

sigar_net_interface_name_get == <<IfNull("address_list", NotImpl, <<Use("address_list")>>), If(OK, Fail)>>

\* iflist is "NULL" when only the caches are to be filled.
sigar_net_interface_list_get(iflist) ==
  <<Null("address_list"),
    Call("sigar_get_adapters_addresses(address_list)", <<Null("address_list")>>),
    IfNull("netif_mib_rows", <<Do("sigar_netif_cache_new"), Alloc("netif_mib_rows")>>, << >>),
    IfNull("netif_names", <<Do("sigar_netif_cache_new"), Alloc("netif_names")>>, << >>),
    Call("sigar_get_if_table", <<Release("address_list")>> \o PassOn), Use("ifconf_buf")>>
  \o (IF iflist = "NULL" THEN << >> ELSE <<Alloc("out")>>)
  \o <<While(<<When(<<Do("sigar_net_interface_name_get")>>), When(<<Continue>>),
               Use("netif_mib_rows"), Set("mib_entry"), Use("netif_names")>>),
       Release("address_list")>> \o OK

\* A cached row is refreshed by GetIfEntry, which is not tested: a library
\* that had GetIfTable, where the row came from, is taken to have it.
get_mib_ifrow ==
  <<IfNull("netif_mib_rows",
      <<Call("sigar_net_interface_list_get(NULL)", PassOn), IfNull("mib_entry", Fail, <<When(Fail)>>)>>,
      <<IfNull("mib_entry", Fail, <<When(Fail)>>), Use("iphlpapi"), Try(Fail)>>)>> \o OK

sigar_net_interface_ipv6_config_find ==
  <<Null("aa"), Call("sigar_get_adapters_addresses(aa)", PassOn), While(<<When(OK)>>)>> \o Fail
sigar_net_interface_config_get(name) ==
  IF name = "NULL" THEN ReturnCall("sigar_net_interface_config_primary_get")
  ELSE <<Call("get_mib_ifrow", PassOn), Do("sigar_get_netif_ipaddr"),
         Do("sigar_net_interface_ipv6_config_find")>> \o OK
sigar_net_interface_stat_get == <<Call("get_mib_ifrow", PassOn)>> \o OK

\* The functions that return a table return their error; GetLastError, which
\* is returned instead, may be 0.
LastError == <<If(OK, Fail)>>
GetTable(t) == <<Try(LastError), Alloc(t), Try(<<Free(t)>> \o LastError)>>

IfNames == IfNull("netif_names", <<Do("sigar_net_interface_list_get(NULL)")>>, << >>)

\* The list is made and then said to be empty: with no route it is forgotten.
sigar_net_route_list_get ==
  LET row == <<Grow("sigar_net_route_list_grow"), Use("netif_names")>>
  IN <<Do("sigar_dllmod_init(iphlpapi)"), NoFunc("iphlpapi", NotImpl)>> \o GetTable("buffer")
     \o <<IfNames, Do("sigar_net_route_list_create"), If(row \o <<While(row)>>, <<Null("out")>>),
          Free("buffer")>> \o OK
sigar_arp_list_get ==
  <<Do("sigar_dllmod_init(iphlpapi)"), NoFunc("iphlpapi", NotImpl)>> \o GetTable("ipnet")
  \o <<Do("sigar_arp_list_create"), IfNames,
       While(<<Grow("sigar_arp_list_grow"), Use("netif_names")>>), Free("ipnet")>> \o OK

net_conn_get_tcp(add_connection) ==
  <<Do("sigar_dllmod_init(iphlpapi)"), NoFunc("iphlpapi", NotImpl)>> \o GetTable("tcp")
  \o <<While(<<When(<<Continue>>), Call(add_connection, <<Break>>)>>), Free("tcp")>> \o OK
net_conn_get_udp == NotImpl
sigar_net_connection_walk(tcp) ==
  <<When(<<Call(tcp, PassOn)>>), When(<<Call("net_conn_get_udp", PassOn)>>)>> \o OK
sigar_tcp_get == <<Do("sigar_dllmod_init(iphlpapi)"), NoFunc("iphlpapi", NotImpl), Try(Fail)>> \o OK

\* The table is freed when the port is in it.
PortOwner(t) ==
  <<NoFunc("iphlpapi", NotImpl)>> \o GetTable(t) \o <<While(<<When(<<Continue>>), Free(t), Break>>)>>
sigar_proc_port_get ==
  <<Do("sigar_dllmod_init(iphlpapi)"), If(PortOwner("tcp"), <<If(PortOwner("udp"), NotImpl)>>)>> \o OK

Listeners(t) ==
  GetTable(t) \o <<While(<<When(<<Continue>>), Call("net_connection_list_walker", <<Break>>)>>), Free(t)>>
sigar_net_listeners_get ==
  <<Do("sigar_dllmod_init(iphlpapi)"), NoFunc("iphlpapi", NotImpl)>> \o Listeners("tcp")
  \o Listeners("tcp6") \o Listeners("udp") \o Listeners("udp6") \o OK

sigar_nfs_client_v2_get == NotImpl
sigar_nfs_server_v2_get == NotImpl
sigar_nfs_client_v3_get == NotImpl
sigar_nfs_server_v3_get == NotImpl

-----------------------------------------------------------------------------
(* The functions by name.                                                  *)

Fns ==
  [dllmod_init_ntdll |-> dllmod_init_ntdll, sigar_enable_privilege |-> sigar_enable_privilege,
   sigar_os_open |-> sigar_os_open, sigar_os_close |-> sigar_os_close,
   sigar_wsa_init |-> sigar_wsa_init, sigar_fqdn_get |-> sigar_fqdn_get,
   wmi_handle_close |-> wmi_handle_close, wmi_handle_open |-> wmi_handle_open,
   wmi_get_proc_string_property |-> wmi_get_proc_string_property,
   wmi_get_proc_executable_path |-> wmi_get_proc_executable_path,
   wmi_get_proc_command_line |-> wmi_get_proc_command_line, wmi_query |-> wmi_query,
   wmi_query_sum_u64 |-> wmi_query_sum_u64, wmi_query_sum_u32 |-> wmi_query_sum_u32,
   sigar_proc_args_wmi_get |-> sigar_proc_args_wmi_get,
   sigar_proc_exe_wmi_get |-> sigar_proc_exe_wmi_get, perfbuf_init |-> perfbuf_init,
   perfbuf_grow |-> perfbuf_grow, get_mem_counters |-> get_mem_counters,
   sigar_mem_get |-> sigar_mem_get, sigar_swap_get |-> sigar_swap_get,
   sigar_uptime_get |-> sigar_uptime_get, get_disk_instance |-> get_disk_instance,
   sigar_disk_usage_get |-> sigar_disk_usage_get,
   sigar_file_system_usage_get |-> sigar_file_system_usage_get, get_cpu_instance |-> get_cpu_instance,
   get_idle_cpu |-> get_idle_cpu, sigar_cpu_perflib_get |-> sigar_cpu_perflib_get,
   sigar_cpu_ntsys_get |-> sigar_cpu_ntsys_get, sigar_cpu_get |-> sigar_cpu_get,
   sigar_cpu_list_perflib_get |-> sigar_cpu_list_perflib_get,
   sigar_cpu_list_ntsys_get |-> sigar_cpu_list_ntsys_get, sigar_cpu_list_get |-> sigar_cpu_list_get,
   sigar_loadavg_get |-> sigar_loadavg_get, sigar_system_stats_get |-> sigar_system_stats_get,
   sigar_proc_list_get_perf |-> sigar_proc_list_get_perf,
   sigar_os_proc_list_get |-> sigar_os_proc_list_get, get_proc_info |-> get_proc_info,
   sigar_proc_mem_get |-> sigar_proc_mem_get,
   sigar_proc_cumulative_disk_io_get |-> sigar_proc_cumulative_disk_io_get,
   sigar_proc_state_get |-> sigar_proc_state_get, sigar_proc_fd_get |-> sigar_proc_fd_get,
   sigar_proc_cred_name_get |-> sigar_proc_cred_name_get, sigar_proc_cred_get |-> sigar_proc_cred_get,
   sigar_proc_time_get |-> sigar_proc_time_get, sigar_proc_kill |-> sigar_proc_kill,
   sigar_pbi_get |-> sigar_pbi_get, sigar_rtl_get |-> sigar_rtl_get,
   sigar_parse_proc_args |-> sigar_parse_proc_args, sigar_proc_args_peb_get |-> sigar_proc_args_peb_get,
   sigar_proc_env_peb_get |-> sigar_proc_env_peb_get,
   sigar_remote_proc_args_get |-> sigar_remote_proc_args_get,
   sigar_os_proc_args_get |-> sigar_os_proc_args_get, sigar_proc_env_parse |-> sigar_proc_env_parse,
   sigar_local_proc_env_get |-> sigar_local_proc_env_get,
   sigar_remote_proc_env_get |-> sigar_remote_proc_env_get, sigar_proc_env_get |-> sigar_proc_env_get,
   sigar_proc_exe_get |-> sigar_proc_exe_get, sigar_thread_cpu_get |-> sigar_thread_cpu_get,
   sigar_file_system_list_get |-> sigar_file_system_list_get,
   sigar_file_system_ping |-> sigar_file_system_ping, get_security_info |-> get_security_info,
   fileattrs_get |-> fileattrs_get, sigar_file_attrs_get |-> sigar_file_attrs_get,
   sigar_link_attrs_get |-> sigar_link_attrs_get, sigar_file_version_get |-> sigar_file_version_get,
   sigar_os_sys_info_get |-> sigar_os_sys_info_get, sigar_sys_info_get_uuid |-> sigar_sys_info_get_uuid,
   sigar_sys_info_get |-> sigar_sys_info_get, sigar_os_is_in_container |-> sigar_os_is_in_container,
   sigar_resource_limit_get |-> sigar_resource_limit_get, sigar_password_get |-> sigar_password_get,
   sigar_cpu_info_get |-> sigar_cpu_info_get, sigar_cpu_info_list_get |-> sigar_cpu_info_list_get,
   sigar_who_net_sessions |-> sigar_who_net_sessions, get_logon_info |-> get_logon_info,
   sigar_who_registry |-> sigar_who_registry, sigar_who_wts |-> sigar_who_wts,
   sigar_who_list_get_win32 |-> sigar_who_list_get_win32, sigar_who_list_get |-> sigar_who_list_get,
   sigar_service_pid_get |-> sigar_service_pid_get,
   ptql_service_query_config |-> ptql_service_query_config,
   sigar_services_status_get |-> sigar_services_status_get,
   sigar_services_status_close |-> sigar_services_status_close,
   sigar_services_walk |-> sigar_services_walk, add_service |-> add_service,
   sigar_services_query |-> sigar_services_query, sigar_netif_cache_new |-> sigar_netif_cache_new,
   sigar_get_adapters_info |-> sigar_get_adapters_info,
   sigar_get_ipaddr_table |-> sigar_get_ipaddr_table, sigar_get_if_table |-> sigar_get_if_table,
   sigar_get_netif_ipaddr |-> sigar_get_netif_ipaddr, sigar_net_info_get |-> sigar_net_info_get,
   sigar_net_interface_name_get |-> sigar_net_interface_name_get, get_mib_ifrow |-> get_mib_ifrow,
   sigar_net_interface_ipv6_config_find |-> sigar_net_interface_ipv6_config_find,
   sigar_net_interface_stat_get |-> sigar_net_interface_stat_get,
   sigar_net_route_list_get |-> sigar_net_route_list_get, sigar_arp_list_get |-> sigar_arp_list_get,
   net_conn_get_udp |-> net_conn_get_udp, sigar_tcp_get |-> sigar_tcp_get,
   sigar_proc_port_get |-> sigar_proc_port_get, sigar_net_listeners_get |-> sigar_net_listeners_get,
   sigar_nfs_client_v2_get |-> sigar_nfs_client_v2_get,
   sigar_nfs_server_v2_get |-> sigar_nfs_server_v2_get,
   sigar_nfs_client_v3_get |-> sigar_nfs_client_v3_get,
   sigar_nfs_server_v3_get |-> sigar_nfs_server_v3_get]
  @@ "sigar_dllmod_init(iphlpapi)" :> sigar_dllmod_init("iphlpapi", FALSE)
  @@ "sigar_dllmod_init(advapi)" :> sigar_dllmod_init("advapi", FALSE)
  @@ "sigar_dllmod_init(ntdll)" :> sigar_dllmod_init("ntdll", FALSE)
  @@ "sigar_dllmod_init(psapi)" :> sigar_dllmod_init("psapi", FALSE)
  @@ "sigar_dllmod_init(winsta)" :> sigar_dllmod_init("winsta", FALSE)
  @@ "sigar_dllmod_init(psapi,all)" :> sigar_dllmod_init("psapi", TRUE)
  @@ "sigar_dllmod_init(wtsapi,all)" :> sigar_dllmod_init("wtsapi", TRUE)
  @@ "sigar_dllmod_init(kernel,all)" :> sigar_dllmod_init("kernel", TRUE)
  @@ "sigar_dllmod_init(mpr,all)" :> sigar_dllmod_init("mpr", TRUE)
  @@ "sigar_dllmod_free(wtsapi)" :> sigar_dllmod_free("wtsapi")
  @@ "sigar_dllmod_free(iphlpapi)" :> sigar_dllmod_free("iphlpapi")
  @@ "sigar_dllmod_free(advapi)" :> sigar_dllmod_free("advapi")
  @@ "sigar_dllmod_free(ntdll)" :> sigar_dllmod_free("ntdll")
  @@ "sigar_dllmod_free(psapi)" :> sigar_dllmod_free("psapi")
  @@ "sigar_dllmod_free(winsta)" :> sigar_dllmod_free("winsta")
  @@ "sigar_dllmod_free(kernel)" :> sigar_dllmod_free("kernel")
  @@ "sigar_dllmod_free(mpr)" :> sigar_dllmod_free("mpr")
  @@ "get_perf_object_inst(0)" :> get_perf_object_inst(0)
  @@ "get_perf_object_inst(1)" :> get_perf_object_inst(1)
  @@ "sigar_proc_modules_get" :> sigar_proc_modules_get("module_getter")
  @@ "sigar_proc_modules_get(self)" :> sigar_proc_modules_get("proc_module_get_self")
  @@ "dir_stat_get" :> dir_stat_get("dir", << >>)
  @@ "dir_stat_get(recurse)" :> dir_stat_get("dir", <<Do("dir_stat_get(sub)")>>)
  @@ "dir_stat_get(sub)" :> dir_stat_get("subdir", << >>)
  @@ "sigar_get_adapters_addresses(address_list)" :> sigar_get_adapters_addresses("address_list")
  @@ "sigar_get_adapters_addresses(aa)" :> sigar_get_adapters_addresses("aa")
  @@ "sigar_net_interface_list_get" :> sigar_net_interface_list_get("list")
  @@ "sigar_net_interface_list_get(NULL)" :> sigar_net_interface_list_get("NULL")
  @@ "sigar_net_interface_config_get" :> sigar_net_interface_config_get("NULL")
  @@ "sigar_net_interface_config_get(name)" :> sigar_net_interface_config_get("name")
  @@ "net_conn_get_tcp(list)" :> net_conn_get_tcp("net_connection_list_walker")
  @@ "net_conn_get_tcp(stat)" :> net_conn_get_tcp("net_stat_walker")
  @@ "net_conn_get_tcp(port)" :> net_conn_get_tcp("net_stat_port_walker")
  @@ "sigar_net_connection_walk(list)" :> sigar_net_connection_walk("net_conn_get_tcp(list)")
  @@ "sigar_net_connection_walk(stat)" :> sigar_net_connection_walk("net_conn_get_tcp(stat)")
  @@ "sigar_net_connection_walk(port)" :> sigar_net_connection_walk("net_conn_get_tcp(port)")
  @@ "sigar_net_listeners_get(list)" :> sigar_net_listeners_get
  @@ Common!Fns

Api ==
  Common!Api @@
  [f \in {"sigar_system_stats_get", "sigar_proc_cred_get", "sigar_proc_cumulative_disk_io_get",
          "sigar_proc_modules_get", "sigar_proc_kill", "sigar_thread_cpu_get", "sigar_os_is_in_container",
          "sigar_nfs_client_v2_get", "sigar_nfs_server_v2_get", "sigar_nfs_client_v3_get",
          "sigar_nfs_server_v3_get", "sigar_file_version_get", "sigar_service_pid_get",
          "sigar_services_query"} |-> ""]

-----------------------------------------------------------------------------
(* Where the code departs from the properties of SigarCalls.               *)

\* Returns that skip what frees (win32_sigar.c:2269; 2647, where the list just
\* made is said to be empty; 3367 and 3401, without a match; 2808, when the
\* second query failed; 2913, the buffer that replaced ifconf_buf;
\* sigar_ptql.c:844; wmi.cpp:133; 220, no VariantClear).
Leaks ==
  Common!Leaks \cup
  {<<"sigar_cpu_info_list_get", "list">>, <<"sigar_net_route_list_get", "out">>,
   <<"sigar_proc_port_get", "tcp">>, <<"sigar_proc_port_get", "udp">>,
   <<"sigar_net_interface_list_get", "address_list">>,
   <<"sigar_net_interface_list_get(NULL)", "address_list">>,
   <<"sigar_net_interface_ipv6_config_find", "aa">>,
   <<"sigar_services_walk", "ss_handle">>, <<"sigar_services_walk", "ss_services">>,
   <<"wmi_handle_open", "wmi_handle">>, <<"wmi_query_sum_u64", "val">>}

\* ifconf_buf after it was reallocated under another name (2913); functions
\* that a second sigar_dllmod_init does not look up again (430); an object in
\* the buffer that a second query moved (2108); a key that was not opened
\* (2195); lists never made when SIGAR_OK is returned for want of an error
\* code (933, 2632 and 2639, 3610 and 3616); INVALID_HANDLE_VALUE, given to
\* FreeLibrary for a DLL that was not loaded (410, 437).
Faults ==
  {<<"sigar_dllmod_free(" \o m \o ")", m>> : m \in DllModules \ Mapped} \cup
  {<<f, "ifconf_buf">> : f \in {"sigar_close", "sigar_get_adapters_addresses(aa)",
                                "sigar_get_adapters_info", "sigar_get_if_table"}} \cup
  {<<"sigar_proc_modules_get", "psapi.funcs">>, <<"sigar_proc_modules_get(self)", "psapi.funcs">>,
   <<"sigar_who_wts", "wtsapi.funcs">>, <<"sigar_disk_usage_get", "object">>,
   <<"sigar_cpu_info_get", "key">>} \cup
  {<<f, "out">> : f \in {"sigar_cpu_list_destroy", "sigar_net_route_list_destroy", "sigar_arp_list_destroy"}}
Dangles == {"ifconf_buf"}

\* sigar_os_close knows neither WMI nor the moving average of sigar_loadavg_get.
Kept == {"wmi_handle", "locator", "wmi_services", "rma_process_queue"}
==============================================================================
