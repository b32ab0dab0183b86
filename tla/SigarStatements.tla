--------------------------- MODULE SigarStatements ---------------------------
(***************************************************************************)
(* A C function reduced to its control and to what it owns.  A function is *)
(* a sequence of statements; what a test of data decides, and whether a    *)
(* call into the operating system succeeds, is left open.  Names stand for *)
(* pointers, descriptors, streams, lists and values that may be undefined. *)
(***************************************************************************)
EXTENDS Sequences

Stmt(op, f, x, yes, no) == [op |-> op, f |-> f, x |-> x, yes |-> yes, no |-> no]

\* x = open(...), fopen, opendir, socket, or an allocation whose result is
\* tested: it may fail, which leaves x null and goes on with no.
Get(x, no) == Stmt("get", "", x, << >>, no)

\* x = malloc(...), not tested.
Alloc(x) == Stmt("alloc", "", x, << >>, << >>)

\* free(x), close(x): null is allowed, and x keeps its value.
Free(x) == Stmt("free", "", x, << >>, << >>)

\* The declaration of x, which a function called next sets.
Var(x) == Stmt("var", "", x, << >>, << >>)

\* x = NULL; x is given a value; x is dereferenced or read.
Null(x) == Stmt("null", "", x, << >>, << >>)
Set(x) == Stmt("set", "", x, << >>, << >>)
Use(x) == Stmt("use", "", x, << >>, << >>)

\* An outside call that may fail: then no.
Try(no) == Stmt("try", "", "", << >>, no)

\* Tests: of data, of a pointer, of the status of the last function called.
If(yes, no) == Stmt("if", "", "", yes, no)
IfNull(x, yes, no) == Stmt("ifnull", "", x, yes, no)
IfStatus(s, yes, no) == Stmt("ifst", s, "", yes, no)
IfOk(yes, no) == IfStatus("OK", yes, no)
When(yes) == If(yes, << >>)

\* A loop, which may end before every round; for (;;); break and continue.
While(body) == Stmt("while", "", "", body, << >>)
Forever(body) == Stmt("while", "forever", "", body, << >>)
Break == Stmt("break", "", "", << >>, << >>)
Continue == Stmt("continue", "", "", << >>, << >>)

\* status = f(...); if (status != SIGAR_OK) no.  CallOn: f works on the
\* caller's x, which it calls "out".  Do: what f returns is ignored.
Call(f, no) == Stmt("call", f, "out", << >>, no)
CallOn(f, x, no) == Stmt("call", f, x, << >>, no)
Do(f) == Stmt("do", f, "out", << >>, << >>)
DoOn(f, x) == Stmt("do", f, x, << >>, << >>)

\* status = s; return s; return status.
Let(s) == Stmt("let", s, "", << >>, << >>)
Return(s) == Stmt("return", s, "", << >>, << >>)
ReturnStatus == Stmt("return", "status", "", << >>, << >>)

\* if (!x) x = create(); if (x) free(x); return f(...).
Lazy(x) == IfNull(x, <<Alloc(x)>>, << >>)
Release(x) == IfNull(x, << >>, <<Free(x)>>)
ReturnCall(f) == <<Call(f, << >>), ReturnStatus>>

\* The next element of a list, SIGAR_*_LIST_GROW: an empty one always grows.
Grow(grow) == IfNull("out", <<Do(grow)>>, <<If(<<Do(grow)>>, <<Use("out")>>)>>)

OK == <<Return("OK")>>
Fail == <<Return("ERR")>>
NotImpl == <<Return("ENOTIMPL")>>
PassOn == <<ReturnStatus>>
==============================================================================
