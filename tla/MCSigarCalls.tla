---------------------------- MODULE MCSigarCalls -----------------------------
(* SigarCalls on the platforms modelled.                                   *)
EXTENDS SigarCalls

Linux == INSTANCE CallsLinux
Solaris == INSTANCE CallsSolaris
Aix == INSTANCE CallsAix
FreeBsd == INSTANCE CallsFreeBsd
OpenBsd == INSTANCE CallsOpenBsd
NetBsd == INSTANCE CallsNetBsd
Hpux == INSTANCE CallsHpux
Darwin == INSTANCE CallsDarwin
Win32 == INSTANCE CallsWin32

MCPort == {"linux", "solaris", "aix", "freebsd", "openbsd", "netbsd", "hpux", "darwin", "win32"}
MCFns ==
  [linux |-> Linux!Fns, solaris |-> Solaris!Fns, aix |-> Aix!Fns, freebsd |-> FreeBsd!Fns,
   openbsd |-> OpenBsd!Fns, netbsd |-> NetBsd!Fns, hpux |-> Hpux!Fns, darwin |-> Darwin!Fns,
   win32 |-> Win32!Fns]
MCApi ==
  [linux |-> Linux!Api, solaris |-> Solaris!Api, aix |-> Aix!Api, freebsd |-> FreeBsd!Api,
   openbsd |-> OpenBsd!Api, netbsd |-> NetBsd!Api, hpux |-> Hpux!Api, darwin |-> Darwin!Api,
   win32 |-> Win32!Api]
MCFields ==
  [linux |-> Linux!Fields, solaris |-> Solaris!Fields, aix |-> Aix!Fields,
   freebsd |-> FreeBsd!Fields, openbsd |-> OpenBsd!Fields, netbsd |-> NetBsd!Fields,
   hpux |-> Hpux!Fields, darwin |-> Darwin!Fields, win32 |-> Win32!Fields]
MCLeaks ==
  [linux |-> Linux!Leaks, solaris |-> Solaris!Leaks, aix |-> Aix!Leaks,
   freebsd |-> FreeBsd!Leaks, openbsd |-> OpenBsd!Leaks, netbsd |-> NetBsd!Leaks,
   hpux |-> Hpux!Leaks, darwin |-> Darwin!Leaks, win32 |-> Win32!Leaks]
MCFaults ==
  [linux |-> Linux!Faults, solaris |-> Solaris!Faults, aix |-> Aix!Faults,
   freebsd |-> FreeBsd!Faults, openbsd |-> OpenBsd!Faults, netbsd |-> NetBsd!Faults,
   hpux |-> Hpux!Faults, darwin |-> Darwin!Faults, win32 |-> Win32!Faults]
MCDangles ==
  [linux |-> Linux!Dangles, solaris |-> Solaris!Dangles, aix |-> Aix!Dangles,
   freebsd |-> FreeBsd!Dangles, openbsd |-> OpenBsd!Dangles, netbsd |-> NetBsd!Dangles,
   hpux |-> Hpux!Dangles, darwin |-> Darwin!Dangles, win32 |-> Win32!Dangles]
MCKept ==
  [linux |-> Linux!Kept, solaris |-> Solaris!Kept, aix |-> Aix!Kept, freebsd |-> FreeBsd!Kept,
   openbsd |-> OpenBsd!Kept, netbsd |-> NetBsd!Kept, hpux |-> Hpux!Kept,
   darwin |-> Darwin!Kept, win32 |-> Win32!Kept]
==============================================================================
