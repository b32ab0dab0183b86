------------------------------ MODULE SigarRma ------------------------------
(***************************************************************************)
(* The running averages of sigar_rma.c: a ring buffer of timed samples,    *)
(* from which an average over the last "rate" seconds is taken by walking  *)
(* back from the newest sample.  Values are integers, and an average is    *)
(* the pair of its sum and its count.  The walk is one step per iteration. *)
(***************************************************************************)
EXTENDS Integers, Sequences

CONSTANTS
  N,            \* element_count: max_average_time, or SIGAR_RMA_RATE_15_MIN
  StdRates,     \* the rates of add_fetch_std_sample, a sequence
  Value,        \* sample values
  Rate,         \* rates callers ask for
  MaxNow,       \* last instant of the clock: bounds the model
  MaxSamples,   \* samples added: bounds the model
  GivesTime     \* whether callers pass the time, or 0 for "now"

ASSUME RmaAssumption ==
  /\ N \in Nat \ {0} /\ MaxNow \in Nat \ {0} /\ MaxSamples \in Nat
  /\ Value \subseteq Int /\ Rate \subseteq Nat
  /\ StdRates \in Seq(Rate)
  /\ GivesTime \subseteq BOOLEAN

VARIABLES
  samples, current_pos,   \* the ring
  now,                    \* the clock, in seconds
  cur, todo,              \* cur_time_sec, and the rates still to compute
  walking, pos, sum, count,  \* the loop of get_average
  res,                    \* the last average, and how many samples there were
  hist                    \* every sample ever added, oldest first

ringVars == <<samples, current_pos, hist>>
walkVars == <<walking, pos, sum, count>>
vars == <<ringVars, walkVars, now, cur, todo, res>>

Index == 0..N-1
NoRes == [rate |-> 0, cur |-> 0, sum |-> 0, count |-> -1, len |-> 0]

\* sigar_rma_open: calloc, so that every time stamp is 0.
Init ==
  /\ samples = [k \in Index |-> [value |-> 0, stime |-> 0]]
  /\ current_pos = 0 /\ hist = << >>
  /\ now = 1 /\ cur = 0 /\ todo = << >>
  /\ walking = FALSE /\ pos = 0 /\ sum = 0 /\ count = 0
  /\ res = NoRes

Tick ==
  /\ now < MaxNow /\ now' = now + 1
  /\ UNCHANGED <<ringVars, walkVars, cur, todo, res>>

\* Mutant: the last element of the ring is never used.
next_posShort(p) == IF p + 1 >= N - 1 THEN 0 ELSE p + 1

next_pos(p) == IF p + 1 >= N THEN 0 ELSE p + 1

\* Mutant: wraps to one past the end.
prev_posPast(p) == IF p - 1 < 0 THEN N ELSE p - 1

prev_pos(p) == IF p - 1 < 0 THEN N - 1 ELSE p - 1

\* sigar_rma_add_sample(value, t), followed by the averages of rates; the
\* time given is 0 or the current one.
Add(v, given, rates) ==
  /\ todo = << >> /\ ~walking /\ Len(hist) < MaxSamples
  /\ LET s == [value |-> v, stime |-> now] IN
       /\ samples' = [samples EXCEPT ![current_pos] = s]
       /\ hist' = Append(hist, s)
  /\ current_pos' = next_pos(current_pos)
  /\ cur' = IF given THEN now ELSE 0
  /\ todo' = rates
  /\ UNCHANGED <<walkVars, now, res>>

add_sample(v, given) == Add(v, given, << >>)
add_fetch_std_sample(v, given) == Add(v, given, StdRates)
add_fetch_custom_sample(v, given, r) == Add(v, given, <<r>>)

\* A call of sigar_rma_get_average by itself.
get_average(r, given) ==
  /\ todo = << >> /\ ~walking
  /\ cur' = IF given THEN now ELSE 0
  /\ todo' = <<r>>
  /\ UNCHANGED <<ringVars, walkVars, now, res>>

WalkStart ==
  /\ todo # << >> /\ ~walking
  /\ walking' = TRUE
  /\ pos' = prev_pos(current_pos) /\ sum' = 0 /\ count' = 0
  /\ UNCHANGED <<ringVars, now, cur, todo, res>>

\* Mutant: the age is compared with one second less.
TooOldEarly(s) == s.stime = 0 \/ cur - s.stime >= Head(todo)

TooOld(s) == s.stime = 0 \/ cur - s.stime > Head(todo)

\* Mutant: the sample is taken after the position has moved.
WalkStepStale ==
  /\ walking /\ pos # current_pos /\ ~TooOld(samples[pos])
  /\ sum' = sum + samples[prev_pos(pos)].value /\ count' = count + 1
  /\ pos' = prev_pos(pos)
  /\ UNCHANGED <<ringVars, walking, now, cur, todo, res>>

\* One iteration of the loop.
WalkStep ==
  /\ walking /\ pos # current_pos /\ ~TooOld(samples[pos])
  /\ sum' = sum + samples[pos].value /\ count' = count + 1
  /\ pos' = prev_pos(pos)
  /\ UNCHANGED <<ringVars, walking, now, cur, todo, res>>

\* The loop ends; a count of 0 is the result -1.
WalkEnd ==
  /\ walking /\ (pos = current_pos \/ TooOld(samples[pos]))
  /\ walking' = FALSE
  /\ res' = [rate |-> Head(todo), cur |-> cur, sum |-> sum, count |-> count,
             len |-> Len(hist)]
  /\ todo' = Tail(todo)
  /\ UNCHANGED <<ringVars, now, cur, pos, sum, count>>

Walk == WalkStart \/ WalkStep \/ WalkEnd

Next ==
  \/ Tick
  \/ \E v \in Value, g \in GivesTime :
       add_sample(v, g) \/ add_fetch_std_sample(v, g)
         \/ \E r \in Rate : add_fetch_custom_sample(v, g, r)
  \/ \E r \in Rate, g \in GivesTime : get_average(r, g)
  \/ Walk

Spec == Init /\ [][Next]_vars

-----------------------------------------------------------------------------
Sample == [value : Value \cup {0}, stime : 0..MaxNow]

\* Type invariant; every position the walk reads is inside the ring.
TypeOK ==
  /\ samples \in [Index -> Sample] /\ current_pos \in Index
  /\ hist \in Seq(Sample) /\ Len(hist) <= MaxSamples
  /\ now \in 1..MaxNow /\ cur \in 0..MaxNow
  /\ todo \in Seq(Rate) /\ walking \in BOOLEAN
  /\ walking => todo # << >>
  /\ pos \in Index /\ count \in 0..N-1 /\ sum \in Int
  /\ res \in [rate : Rate \cup {0}, cur : 0..MaxNow, sum : Int, count : -1..N-1, len : Nat]
  /\ res.len <= Len(hist)

Newest(k) == hist[Len(hist) + 1 - k]
Back(k) == IF k <= current_pos THEN current_pos - k ELSE current_pos - k + N
Blank == [value |-> 0, stime |-> 0]

\* The ring holds the last N samples added to it, the newest just before
\* current_pos, and the slots that were never written are marked by time 0.
RingIsHistory ==
  \A k \in 1..N : samples[Back(k)] = IF k <= Len(hist) THEN Newest(k) ELSE Blank

Old(k) == res.cur - hist[res.len + 1 - k].stime > res.rate

\* An average of get_average counts the newest samples back to the first one
\* that is older than the rate: it skips none, and stops early only when all
\* samples, or N - 1 of them, are counted.
AverageIsWindow ==
  res.count # -1 =>
    /\ res.count <= res.len /\ res.count <= N - 1
    /\ \A k \in 1..res.count : ~Old(k)
    /\ res.count = res.len \/ res.count = N - 1 \/ Old(res.count + 1)

\* Inductive strengthening: samples carry a time, and while it walks
\* get_average has counted the newest samples, none of them too old.
IInv ==
  /\ TypeOK /\ RingIsHistory /\ AverageIsWindow
  /\ \A k \in 1..Len(hist) : hist[k].stime # 0
  /\ walking => /\ pos = Back(count + 1) /\ count <= Len(hist)
                /\ \A k \in 1..count : cur - Newest(k).stime <= Head(todo)

\* The sum is that of the samples counted.
SumIsOfWindow ==
  LET total[k \in 0..res.len] ==
        IF k = 0 THEN 0 ELSE total[k-1] + hist[res.len + 1 - k].value
  IN res.count # -1 => res.sum = total[res.count]
=============================================================================
