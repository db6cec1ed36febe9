---------------------------- MODULE StorageLogProofs ----------------------------
(***************************************************************************)
(* The log API of Storage keeps the log without gaps for any number of     *)
(* threads that only append, and for one thread that also truncates.       *)
(***************************************************************************)
EXTENDS StorageLog, TLAPS

USE MaxIndexAssumption, NoEntryAssumption DEF Index, None

-----------------------------------------------------------------------------
\* Types.

LEMMA IdleTyped == Idle \in Call
BY DEF Idle, Call

\* A step of thread t leaves the calls of the others alone.
Only(t) == call' \in [Thread -> Call] /\ \A u \in Thread \ {t} : call'[u] = call[u]

\* What the steps do to the call they belong to.
LEMMA AtStep ==
  ASSUME TypeOK, NEW t \in Thread, NEW at \in {"idle", "check", "query", "fill", "act", "cache"},
         call' = [call EXCEPT ![t].at = at]
  PROVE  /\ Only(t) /\ call'[t].at = at /\ call'[t].op = call[t].op
         /\ call'[t].index = call[t].index /\ call'[t].value = call[t].value /\ call'[t].last = call[t].last
<1>1. call \in [Thread -> Call] /\ call[t] \in Call
  BY DEF TypeOK
<1> DEFINE c == [call[t] EXCEPT !.at = at]
<1>2. c \in Call /\ c.at = at /\ c.op = call[t].op /\ c.index = call[t].index
      /\ c.value = call[t].value /\ c.last = call[t].last
  BY <1>1 DEF Call
<1>3. call' = [call EXCEPT ![t] = c]
  BY <1>1
<1> HIDE DEF c
<1> QED
  BY <1>1, <1>2, <1>3 DEF Only

LEMMA AtLastStep ==
  ASSUME TypeOK, NEW t \in Thread, NEW at \in {"idle", "check", "query", "fill", "act", "cache"},
         NEW l \in 0..MaxIndex, call' = [call EXCEPT ![t].at = at, ![t].last = l]
  PROVE  /\ Only(t) /\ call'[t].at = at /\ call'[t].op = call[t].op
         /\ call'[t].index = call[t].index /\ call'[t].value = call[t].value /\ call'[t].last = l
<1>1. call \in [Thread -> Call] /\ call[t] \in Call
  BY DEF TypeOK
<1> DEFINE c == [call[t] EXCEPT !.at = at, !.last = l]
<1>2. c \in Call /\ c.at = at /\ c.op = call[t].op /\ c.index = call[t].index
      /\ c.value = call[t].value /\ c.last = l
  BY <1>1 DEF Call
<1>3. call' = [call EXCEPT ![t] = c]
  BY <1>1
<1> HIDE DEF c
<1> QED
  BY <1>1, <1>2, <1>3 DEF Only

LEMMA IdleStep ==
  ASSUME TypeOK, NEW t \in Thread, call' = [call EXCEPT ![t] = Idle]
  PROVE  Only(t) /\ call'[t] = Idle
BY IdleTyped DEF TypeOK, Only

LEMMA NewCallStep ==
  ASSUME TypeOK, NEW t \in Thread, NEW op \in {"append", "truncate", "last"},
         NEW i \in 0..(MaxIndex + 1), NEW v \in Value \cup {NoEntry},
         call' = [call EXCEPT ![t] = [op |-> op, at |-> "check", index |-> i, value |-> v, last |-> None]]
  PROVE  /\ Only(t) /\ call'[t].at = "check" /\ call'[t].op = op
         /\ call'[t].index = i /\ call'[t].value = v /\ call'[t].last = None
<1>1. call \in [Thread -> Call]
  BY DEF TypeOK
<1> DEFINE c == [op |-> op, at |-> "check", index |-> i, value |-> v, last |-> None]
<1>2. c \in Call /\ c.at = "check" /\ c.op = op /\ c.index = i /\ c.value = v /\ c.last = None
  BY DEF Call
<1>3. call' = [call EXCEPT ![t] = c]
  OBVIOUS
<1> HIDE DEF c
<1> QED
  BY <1>1, <1>2, <1>3 DEF Only

LEMMA IdleFacts == Idle.at = "idle" /\ Idle.op = "idle" /\ Idle.last = None
BY DEF Idle

LEMMA CallFacts ==
  ASSUME TypeOK, NEW t \in Thread
  PROVE  /\ call[t] \in Call /\ call[t].index \in 0..(MaxIndex + 1) /\ call[t].last \in 0..MaxIndex
         /\ call[t].value \in Value \cup {NoEntry}
<1>1. call[t] \in Call
  BY DEF TypeOK
<1> QED
  BY <1>1 DEF Call

\* The effect of each action on the call it belongs to, and what it leaves alone.
LEMMA Effects ==
  ASSUME TypeOK, NEW t \in Thread
  PROVE  /\ CheckCache(t) =>
              /\ Only(t) /\ call'[t].op = call[t].op /\ call'[t].index = call[t].index
              /\ call'[t].value = call[t].value /\ call'[t].last = cache
              /\ call'[t].at = IF cache # None THEN "act" ELSE "query"
         /\ QueryDb(t) =>
              /\ Only(t) /\ call'[t].op = call[t].op /\ call'[t].index = call[t].index
              /\ call'[t].value = call[t].value /\ IsLast(log, call'[t].last) /\ call'[t].at = "fill"
         /\ FillCache(t) =>
              /\ Only(t) /\ call'[t].op = call[t].op /\ call'[t].index = call[t].index
              /\ call'[t].value = call[t].value /\ call'[t].last = call[t].last /\ call'[t].at = "act"
         /\ AppendPut(t) \/ TruncateWrite(t) =>
              /\ Only(t) /\ call'[t].op = call[t].op /\ call'[t].index = call[t].index
              /\ call'[t].value = call[t].value /\ call'[t].last = call[t].last /\ call'[t].at = "cache"
         /\ ReturnLast(t) \/ AppendReject(t) \/ AppendCache(t) \/ TruncateEmpty(t) \/ TruncateCache(t) =>
              Only(t) /\ call'[t] = Idle
<1>1. ASSUME CheckCache(t)
      PROVE  /\ Only(t) /\ call'[t].op = call[t].op /\ call'[t].index = call[t].index
             /\ call'[t].value = call[t].value /\ call'[t].last = cache
             /\ call'[t].at = IF cache # None THEN "act" ELSE "query"
  <2> DEFINE at == IF cache # None THEN "act" ELSE "query"
  <2>1. cache \in 0..MaxIndex /\ at \in {"idle", "check", "query", "fill", "act", "cache"}
    BY DEF TypeOK
  <2>2. call' = [call EXCEPT ![t].at = at, ![t].last = cache]
    BY <1>1 DEF CheckCache
  <2> HIDE DEF at
  <2>3. /\ Only(t) /\ call'[t].at = at /\ call'[t].op = call[t].op
        /\ call'[t].index = call[t].index /\ call'[t].value = call[t].value /\ call'[t].last = cache
    BY <2>1, <2>2, AtLastStep, ZenonT(60)
  <2> QED
    BY <2>3 DEF at
<1>2. ASSUME QueryDb(t)
      PROVE  /\ Only(t) /\ call'[t].op = call[t].op /\ call'[t].index = call[t].index
             /\ call'[t].value = call[t].value /\ IsLast(log, call'[t].last) /\ call'[t].at = "fill"
  <2>1. PICK i \in 0..MaxIndex : IsLast(log, i) /\ call' = [call EXCEPT ![t].at = "fill", ![t].last = i]
    BY <1>2 DEF QueryDb
  <2>2. /\ Only(t) /\ call'[t].at = "fill" /\ call'[t].op = call[t].op
        /\ call'[t].index = call[t].index /\ call'[t].value = call[t].value /\ call'[t].last = i
    BY <2>1, AtLastStep
  <2> QED
    BY <2>1, <2>2
<1>3. ASSUME FillCache(t)
      PROVE  /\ Only(t) /\ call'[t].op = call[t].op /\ call'[t].index = call[t].index
             /\ call'[t].value = call[t].value /\ call'[t].last = call[t].last /\ call'[t].at = "act"
  <2>1. call' = [call EXCEPT ![t].at = "act"]
    BY <1>3 DEF FillCache
  <2> QED
    BY <2>1, AtStep
<1>4. ASSUME AppendPut(t) \/ TruncateWrite(t)
      PROVE  /\ Only(t) /\ call'[t].op = call[t].op /\ call'[t].index = call[t].index
             /\ call'[t].value = call[t].value /\ call'[t].last = call[t].last /\ call'[t].at = "cache"
  <2>1. call' = [call EXCEPT ![t].at = "cache"]
    BY <1>4 DEF AppendPut, TruncateWrite
  <2> QED
    BY <2>1, AtStep
<1>5. ASSUME ReturnLast(t) \/ AppendReject(t) \/ AppendCache(t) \/ TruncateEmpty(t) \/ TruncateCache(t)
      PROVE  Only(t) /\ call'[t] = Idle
  BY <1>5, IdleStep DEF ReturnLast, AppendReject, AppendCache, TruncateEmpty, TruncateCache
<1> QED
  BY <1>1, <1>2, <1>3, <1>4, <1>5

\* The steps of one thread.
ThreadStep(t) ==
  \/ \E i \in Index, v \in Value : CallAppend(t, i, v)
  \/ \E i \in 1..(MaxIndex + 1) : CallTruncate(t, i)
  \/ CallLast(t)
  \/ CheckCache(t) \/ QueryDb(t) \/ FillCache(t) \/ ReturnLast(t)
  \/ AppendPut(t) \/ AppendReject(t) \/ AppendCache(t)
  \/ TruncateWrite(t) \/ TruncateEmpty(t) \/ TruncateCache(t)

\* Append calls carry an entry, at an index of the log.
Appends == \A t \in Thread : call[t].op = "append" => call[t].index \in Index /\ call[t].value \in Value

Typed == TypeOK /\ Appends

LEMMA NewCalls ==
  ASSUME TypeOK, NEW t \in Thread
  PROVE  /\ \A i \in Index, v \in Value : CallAppend(t, i, v) =>
              /\ Only(t) /\ call'[t].at = "check" /\ call'[t].op = "append"
              /\ call'[t].index = i /\ call'[t].value = v /\ call'[t].last = None
         /\ \A i \in 1..(MaxIndex + 1) : CallTruncate(t, i) =>
              Only(t) /\ call'[t].at = "check" /\ call'[t].op = "truncate" /\ call'[t].last = None
         /\ CallLast(t) =>
              Only(t) /\ call'[t].at = "check" /\ call'[t].op = "last" /\ call'[t].last = None
<1>1. ASSUME NEW i \in Index, NEW v \in Value, CallAppend(t, i, v)
      PROVE  /\ Only(t) /\ call'[t].at = "check" /\ call'[t].op = "append"
             /\ call'[t].index = i /\ call'[t].value = v /\ call'[t].last = None
  <2>1. i \in 0..(MaxIndex + 1) /\ v \in Value \cup {NoEntry}
    OBVIOUS
  <2> QED
    BY <1>1, <2>1, NewCallStep DEF CallAppend
<1>2. ASSUME NEW i \in 1..(MaxIndex + 1), CallTruncate(t, i)
      PROVE  Only(t) /\ call'[t].at = "check" /\ call'[t].op = "truncate" /\ call'[t].last = None
  <2>1. i \in 0..(MaxIndex + 1) /\ NoEntry \in Value \cup {NoEntry}
    OBVIOUS
  <2> QED
    BY <1>2, <2>1, NewCallStep DEF CallTruncate
<1>3. ASSUME CallLast(t)
      PROVE  Only(t) /\ call'[t].at = "check" /\ call'[t].op = "last" /\ call'[t].last = None
  <2>1. None \in 0..(MaxIndex + 1) /\ NoEntry \in Value \cup {NoEntry}
    OBVIOUS
  <2> QED
    BY <1>3, <2>1, NewCallStep DEF CallLast
<1> QED
  BY <1>1, <1>2, <1>3

LEMMA OnlyOne ==
  ASSUME Typed, NEW t \in Thread, ThreadStep(t)
  PROVE  Only(t) /\ Appends'
<1> USE IdleFacts DEF Typed
<1>0. ASSUME Only(t), call'[t].op = "append" => call'[t].index \in Index /\ call'[t].value \in Value
      PROVE  Appends'
  BY <1>0 DEF Appends, Only
<1>1. ASSUME NEW i \in Index, NEW v \in Value, CallAppend(t, i, v) PROVE Only(t) /\ Appends'
  BY <1>0, <1>1, NewCalls
<1>2. ASSUME NEW i \in 1..(MaxIndex + 1), CallTruncate(t, i) PROVE Only(t) /\ Appends'
  BY <1>0, <1>2, NewCalls
<1>3. CASE CallLast(t)
  BY <1>0, <1>3, NewCalls
<1>4. CASE CheckCache(t) \/ QueryDb(t) \/ FillCache(t) \/ AppendPut(t) \/ TruncateWrite(t)
  <2>1. Only(t) /\ call'[t].op = call[t].op /\ call'[t].index = call[t].index /\ call'[t].value = call[t].value
    BY <1>4, Effects
  <2> QED
    BY <1>0, <2>1 DEF Appends
<1>5. CASE ReturnLast(t) \/ AppendReject(t) \/ AppendCache(t) \/ TruncateEmpty(t) \/ TruncateCache(t)
  BY <1>0, <1>5, Effects
<1> QED
  BY <1>1, <1>2, <1>3, <1>4, <1>5 DEF ThreadStep

\* Only two steps write the database, and each writes one log.
LEMMA LogWrites ==
  ASSUME Typed, NEW t \in Thread, ThreadStep(t)
  PROVE  \/ UNCHANGED <<log, survivors>>
         \/ AppendPut(t) /\ log' \in Log /\ survivors' = survivors \cup {log'}
         \/ TruncateWrite(t) /\ log' \in Log /\ survivors' = survivors \cup {log'}
<1>1. CASE AppendPut(t)
  <2>1. log \in Log /\ call[t].value \in Value \cup {NoEntry}
    BY CallFacts DEF Typed, TypeOK
  <2> QED
    BY <1>1, <2>1 DEF AppendPut, WriteLog, Log
<1>2. CASE TruncateWrite(t)
  <2>1. log \in Log
    BY DEF Typed, TypeOK
  <2> QED
    BY <1>2, <2>1 DEF TruncateWrite, WriteLog, Log, Truncated
<1>3. CASE ~AppendPut(t) /\ ~TruncateWrite(t)
  BY <1>3 DEF ThreadStep, CallAppend, CallTruncate, CallLast, CheckCache, QueryDb, FillCache,
       ReturnLast, AppendReject, AppendCache, TruncateEmpty, TruncateCache
<1> QED
  BY <1>1, <1>2, <1>3

LEMMA CacheWrites ==
  ASSUME Typed, NEW t \in Thread, ThreadStep(t)
  PROVE  \/ cache' = cache
         \/ FillCache(t) /\ cache' = call[t].last
         \/ AppendCache(t) /\ cache' = call[t].index
         \/ TruncateCache(t) /\ cache' = None
BY DEF ThreadStep, CallAppend, CallTruncate, CallLast, CheckCache, QueryDb, FillCache, ReturnLast,
   AppendPut, AppendReject, AppendCache, TruncateWrite, TruncateEmpty, TruncateCache

LEMMA NextSteps == Next <=> CrashAndReopen \/ \E t \in Thread : ThreadStep(t)
BY DEF Next, ThreadStep

LEMMA CrashFacts ==
  ASSUME Typed, CrashAndReopen
  PROVE  /\ Typed' /\ log' \in survivors /\ survivors' = {log'} /\ IsLast(log', cache')
         /\ \A t \in Thread : call'[t] = Idle
<1>1. /\ log' \in survivors /\ survivors' = {log'} /\ call' = [t \in Thread |-> Idle]
      /\ IsLast(log', cache') /\ cache' \in 0..MaxIndex
  BY DEF CrashAndReopen
<1>2. TypeOK' /\ \A t \in Thread : call'[t] = Idle
  BY <1>1, IdleTyped DEF Typed, TypeOK
<1> QED
  BY <1>1, <1>2, IdleFacts DEF Typed, Appends

LEMMA InitTyped == Init => Typed
<1> SUFFICES ASSUME Init PROVE Typed
  OBVIOUS
<1>1. Empty \in Log
  BY DEF Empty, Log
<1>2. TypeOK
  BY <1>1, IdleTyped DEF Init, TypeOK
<1> QED
  BY <1>2, IdleFacts DEF Init, Typed, Appends

LEMMA StepTyped ==
  ASSUME Typed, NEW t \in Thread, ThreadStep(t)
  PROVE  Typed'
<1>1. Only(t) /\ Appends'
  BY OnlyOne
<1>2. log' \in Log /\ survivors' \subseteq Log /\ log' \in survivors'
  BY LogWrites DEF Typed, TypeOK
<1>3. cache' \in 0..MaxIndex
  <2>1. AppendCache(t) => call[t].index \in Index
    BY DEF AppendCache, Typed, Appends
  <2> QED
    BY <2>1, CacheWrites, CallFacts DEF Typed, TypeOK
<1> QED
  BY <1>1, <1>2, <1>3 DEF Typed, TypeOK, Only

LEMMA NextTyped == Typed /\ [Next]_vars => Typed'
<1>1. ASSUME Typed, UNCHANGED vars PROVE Typed'
  BY <1>1 DEF vars, Typed, TypeOK, Appends
<1> QED
  BY <1>1, NextSteps, StepTyped, CrashFacts

\* The log, the cache and every call in progress keep their types.
THEOREM TypeCorrect == Spec => []TypeOK
<1>1. Typed => TypeOK
  BY DEF Typed
<1> QED
  BY InitTyped, NextTyped, <1>1, PTL DEF Spec

-----------------------------------------------------------------------------
\* Threads that only append.

Whole(l) == \A i \in Present(l) : \A j \in Index : j <= i => j \in Present(l)

\* A log that only grows keeps what any thread has seen of it: every index a
\* call or the cache holds is still there, with all those before it.
Grown ==
  /\ \A l \in survivors : Whole(l)
  /\ cache \in Present(log) \cup {None}
  /\ \A t \in Thread :
       /\ call[t].op # "truncate"
       /\ call[t].last \in Present(log) \cup {None}
       /\ call[t].op = "append" /\ call[t].at = "cache" => call[t].index \in Present(log)

GInv == Typed /\ Grown

\* The put of append_log_entry adds one index, right after one that is there.
LEMMA PutGrows ==
  ASSUME GInv, NEW t \in Thread, AppendPut(t)
  PROVE  /\ Present(log') = Present(log) \cup {call[t].index}
         /\ Whole(log')
<1>1. /\ call[t].op = "append" /\ call[t].index = call[t].last + 1
      /\ log' = [log EXCEPT ![call[t].index] = call[t].value]
  BY DEF AppendPut, WriteLog
<1>2. log \in Log /\ call[t].index \in Index /\ call[t].value \in Value
  BY <1>1 DEF GInv, Typed, TypeOK, Appends
<1>3. Present(log') = Present(log) \cup {call[t].index}
  BY <1>1, <1>2 DEF Present, Log
<1>4. Whole(log) /\ call[t].last \in Present(log) \cup {None}
  BY DEF GInv, Grown, Typed, TypeOK
<1>5. Whole(log')
  <2> SUFFICES ASSUME NEW i \in Present(log'), NEW j \in Index, j <= i PROVE j \in Present(log')
    BY DEF Whole
  <2>1. CASE i \in Present(log)
    BY <1>3, <1>4, <2>1 DEF Whole
  <2>2. CASE i = call[t].index
    <3>1. call[t].last \in 0..MaxIndex
      BY CallFacts DEF GInv, Typed
    <3>2. j = call[t].index \/ j <= call[t].last
      BY <1>1, <2>2, <3>1
    <3>3. CASE j <= call[t].last
      BY <1>3, <1>4, <3>1, <3>3 DEF Whole
    <3> QED
      BY <1>3, <3>2, <3>3
  <2> QED
    BY <1>3, <2>1, <2>2
<1> QED
  BY <1>3, <1>5

LEMMA StepGrown ==
  ASSUME ~AllowTruncate, GInv, NEW t \in Thread, ThreadStep(t)
  PROVE  Grown'
<1>0. Typed /\ Typed' /\ Only(t)
  BY StepTyped, OnlyOne DEF GInv
<1>1. ~TruncateWrite(t)
  BY DEF TruncateWrite, GInv, Grown
<1>2. Present(log) \subseteq Present(log') /\ \A l \in survivors' : Whole(l)
  <2>1. CASE UNCHANGED <<log, survivors>>
    BY <2>1 DEF GInv, Grown
  <2>2. CASE AppendPut(t) /\ survivors' = survivors \cup {log'}
    BY <2>2, PutGrows DEF GInv, Grown
  <2> QED
    BY <1>0, <1>1, <2>1, <2>2, LogWrites
<1>3. cache' \in Present(log') \cup {None}
  <2>1. AppendCache(t) => call[t].index \in Present(log)
    BY DEF AppendCache, GInv, Grown
  <2>2. cache \in Present(log) \cup {None} /\ call[t].last \in Present(log) \cup {None}
    BY DEF GInv, Grown
  <2> QED
    BY <1>0, <1>2, <2>1, <2>2, CacheWrites
<1>4. /\ call'[t].op # "truncate"
      /\ call'[t].last \in Present(log') \cup {None}
      /\ call'[t].op = "append" /\ call'[t].at = "cache" => call'[t].index \in Present(log')
  <2>0. /\ call[t].op # "truncate" /\ call[t].last \in Present(log) \cup {None}
        /\ cache \in Present(log) \cup {None} /\ TypeOK
    BY DEF GInv, Grown, Typed
  <2>1. CASE (\E i \in Index, v \in Value : CallAppend(t, i, v)) \/ CallLast(t)
    BY <2>0, <2>1, NewCalls
  <2>2. CASE CheckCache(t)
    BY <1>2, <2>0, <2>2, Effects
  <2>3. CASE QueryDb(t)
    BY <1>2, <2>0, <2>3, Effects DEF IsLast
  <2>4. CASE FillCache(t)
    BY <1>2, <2>0, <2>4, Effects
  <2>5. CASE AppendPut(t)
    BY <1>2, <2>0, <2>5, Effects, PutGrows
  <2>6. CASE ReturnLast(t) \/ AppendReject(t) \/ AppendCache(t) \/ TruncateEmpty(t) \/ TruncateCache(t)
    BY <2>0, <2>6, Effects, IdleFacts
  <2>7. \A i \in 1..(MaxIndex + 1) : ~CallTruncate(t, i)
    BY DEF CallTruncate
  <2> QED
    BY <1>1, <2>1, <2>2, <2>3, <2>4, <2>5, <2>6, <2>7 DEF ThreadStep
<1> QED
  BY <1>0, <1>2, <1>3, <1>4 DEF GInv, Grown, Only

LEMMA NextGrown ==
  ASSUME ~AllowTruncate
  PROVE  GInv /\ [Next]_vars => GInv'
<1>1. ASSUME GInv, UNCHANGED vars PROVE GInv'
  BY <1>1 DEF vars, GInv, Grown, Typed, TypeOK, Appends
<1>2. ASSUME GInv, CrashAndReopen PROVE GInv'
  <2>1. /\ Typed' /\ log' \in survivors /\ survivors' = {log'} /\ IsLast(log', cache')
        /\ \A t \in Thread : call'[t] = Idle
    BY <1>2, CrashFacts DEF GInv
  <2> QED
    BY <1>2, <2>1, IdleFacts DEF GInv, Grown, IsLast
<1>3. ASSUME GInv, NEW t \in Thread, ThreadStep(t) PROVE GInv'
  BY <1>3, StepGrown, StepTyped DEF GInv
<1> QED
  BY <1>1, <1>2, <1>3, NextSteps

\* Any number of threads may call append_log_entry and get_last_log_index at once,
\* and the machine may stop at any moment: the log never has a gap.
THEOREM AppendersNoGaps == ASSUME ~AllowTruncate PROVE Spec => []NoGaps
<1>1. Init => GInv
  <2> SUFFICES ASSUME Init PROVE GInv
    OBVIOUS
  <2>1. Present(Empty) = {}
    BY DEF Present, Empty
  <2> QED
    BY <2>1, InitTyped, IdleFacts DEF GInv, Grown, Whole, Init
<1>2. GInv => NoGaps
  BY DEF GInv, Grown, Whole, NoGaps, IsInterval, Present
<1> QED
  BY <1>1, <1>2, NextGrown, PTL DEF Spec

-----------------------------------------------------------------------------
\* One thread, truncating too.

\* What its call has read of the log is still so, and the cache lags behind
\* only between a write and the step that updates it.
Current ==
  /\ \A l \in survivors : IsInterval(Present(l))
  /\ \A t \in Thread :
       /\ call[t].at \in {"fill", "act"} => IsLast(log, call[t].last)
       /\ call[t].at = "cache" /\ call[t].op = "append" => IsLast(log, call[t].index)
       /\ call[t].at # "cache" => cache = None \/ IsLast(log, cache)

SInv == Typed /\ Current

OneThread == \A t, u \in Thread : t = u

\* The put of append_log_entry extends the log by one index.
LEMMA PutExtends ==
  ASSUME SInv, NEW t \in Thread, AppendPut(t)
  PROVE  /\ IsInterval(Present(log')) /\ IsLast(log', call[t].index)
         /\ log[call[t].index] = NoEntry
<1>1. /\ call[t].op = "append" /\ call[t].at = "act" /\ call[t].index = call[t].last + 1
      /\ log' = [log EXCEPT ![call[t].index] = call[t].value]
  BY DEF AppendPut, WriteLog
<1>2. log \in Log /\ call[t].index \in Index /\ call[t].value \in Value /\ call[t].last \in 0..MaxIndex
  BY <1>1, CallFacts DEF SInv, Typed, TypeOK, Appends
<1>3. Present(log') = Present(log) \cup {call[t].index}
  BY <1>1, <1>2 DEF Present, Log
<1>4. IsInterval(Present(log)) /\ IsLast(log, call[t].last)
  BY <1>1 DEF SInv, Current, Typed, TypeOK
<1>5. \A i \in Present(log) : i \in Index /\ i <= call[t].last
  BY <1>2, <1>4 DEF IsLast, Present
<1>6. log[call[t].index] = NoEntry
  BY <1>1, <1>2, <1>5 DEF Present
<1> DEFINE n == call[t].index
<1>7. /\ n \in Index /\ n = call[t].last + 1 /\ n \in Present(log')
      /\ \A i \in Present(log') : i \in Index /\ (i = n \/ i \in Present(log)) /\ i <= n
  <2>1. n \in Index /\ call[t].last \in 0..MaxIndex /\ n = call[t].last + 1
    BY <1>1, <1>2
  <2> HIDE DEF n
  <2> QED
    BY <1>3, <1>5, <2>1 DEF n
<1>8. IsLast(log', n)
  BY <1>7 DEF IsLast
<1>9. ASSUME NEW i \in Present(log'), NEW j \in Present(log'), NEW k \in Index, i <= k, k <= j
      PROVE  k \in Present(log')
  <2>1. CASE k = n
    BY <1>7, <2>1
  <2>2. CASE k # n
    <3>1. i \in Present(log) /\ k <= call[t].last
      <4>1. k <= n /\ i \in Index /\ (i = n \/ i \in Present(log)) /\ call[t].last \in 0..MaxIndex
        BY <1>2, <1>7, <1>9
      <4> QED
        BY <1>7, <1>9, <2>2, <4>1
    <3>2. call[t].last \in Present(log)
      BY <1>4, <3>1 DEF IsLast
    <3> QED
      BY <1>3, <1>4, <1>9, <3>1, <3>2 DEF IsInterval
  <2> QED
    BY <2>1, <2>2
<1> QED
  BY <1>6, <1>8, <1>9 DEF IsInterval

LEMMA TruncateKeepsInterval ==
  ASSUME SInv, NEW t \in Thread, TruncateWrite(t)
  PROVE  IsInterval(Present(log'))
<1>1. call[t].at = "act" /\ log' = Truncated(log, call[t].last, call[t].index)
  BY DEF TruncateWrite, WriteLog
<1>2. /\ log \in Log /\ call[t].last \in 0..MaxIndex /\ call[t].index \in 0..(MaxIndex + 1)
      /\ IsInterval(Present(log)) /\ IsLast(log, call[t].last)
  BY <1>1, CallFacts DEF SInv, Current, Typed, TypeOK
<1>3. \A i \in Index : i \in Present(log') <=> i \in Present(log) /\ ~(i <= call[t].last /\ i < call[t].index)
  BY <1>1, <1>2 DEF Present, Truncated, Log
<1>4. \A i \in Present(log') : i \in Index
  BY DEF Present
<1> QED
  BY <1>2, <1>3, <1>4 DEF IsInterval

LEMMA StepCurrent ==
  ASSUME OneThread, SInv, NEW t \in Thread, ThreadStep(t)
  PROVE  Current'
<1>0. Typed /\ TypeOK
  BY DEF SInv, Typed
<1>1. \A l \in survivors' : IsInterval(Present(l))
  <2>1. CASE UNCHANGED <<log, survivors>>
    BY <2>1 DEF SInv, Current
  <2>2. CASE AppendPut(t) /\ survivors' = survivors \cup {log'}
    BY <2>2, PutExtends DEF SInv, Current
  <2>3. CASE TruncateWrite(t) /\ survivors' = survivors \cup {log'}
    BY <2>3, TruncateKeepsInterval DEF SInv, Current
  <2> QED
    BY <1>0, <2>1, <2>2, <2>3, LogWrites
<1>2. /\ call[t].at \in {"fill", "act"} => IsLast(log, call[t].last)
      /\ call[t].at = "cache" /\ call[t].op = "append" => IsLast(log, call[t].index)
      /\ call[t].at # "cache" => cache = None \/ IsLast(log, cache)
  BY DEF SInv, Current
<1>3. /\ call'[t].at \in {"fill", "act"} => IsLast(log', call'[t].last)
      /\ call'[t].at = "cache" /\ call'[t].op = "append" => IsLast(log', call'[t].index)
      /\ call'[t].at # "cache" => cache' = None \/ IsLast(log', cache')
  <2>1. ASSUME NEW i \in Index, NEW v \in Value, CallAppend(t, i, v)
        PROVE  call'[t].at = "check" /\ UNCHANGED <<log, cache>> /\ call[t].at # "cache"
    BY <1>0, <2>1, NewCalls, IdleFacts DEF CallAppend
  <2>2. ASSUME NEW i \in 1..(MaxIndex + 1), CallTruncate(t, i)
        PROVE  call'[t].at = "check" /\ UNCHANGED <<log, cache>> /\ call[t].at # "cache"
    BY <1>0, <2>2, NewCalls, IdleFacts DEF CallTruncate
  <2>3. ASSUME CallLast(t)
        PROVE  call'[t].at = "check" /\ UNCHANGED <<log, cache>> /\ call[t].at # "cache"
    BY <1>0, <2>3, NewCalls, IdleFacts DEF CallLast
  <2>4. CASE CheckCache(t)
    <3>1. call[t].at = "check" /\ UNCHANGED <<log, cache>>
      BY <2>4 DEF CheckCache
    <3>2. /\ call'[t].last = cache /\ (call'[t].at = "act" \/ call'[t].at = "query")
          /\ call'[t].at = "act" => cache # None
      BY <1>0, <2>4, Effects
    <3> QED
      BY <1>2, <3>1, <3>2
  <2>5. CASE QueryDb(t)
    BY <1>0, <1>2, <2>5, Effects DEF QueryDb
  <2>6. CASE FillCache(t)
    BY <1>0, <1>2, <2>6, Effects DEF FillCache
  <2>7. CASE ReturnLast(t) \/ AppendReject(t) \/ TruncateEmpty(t)
    BY <1>0, <1>2, <2>7, Effects, IdleFacts DEF ReturnLast, AppendReject, TruncateEmpty
  <2>8. CASE AppendCache(t)
    BY <1>0, <1>2, <2>8, Effects, IdleFacts DEF AppendCache
  <2>9. CASE TruncateCache(t)
    BY <1>0, <1>2, <2>9, Effects, IdleFacts DEF TruncateCache
  <2>10. CASE AppendPut(t)
    BY <1>0, <2>10, Effects, PutExtends
  <2>11. CASE TruncateWrite(t)
    BY <1>0, <2>11, Effects DEF TruncateWrite
  <2> QED
    BY <1>2, <2>1, <2>2, <2>3, <2>4, <2>5, <2>6, <2>7, <2>8, <2>9, <2>10, <2>11 DEF ThreadStep
<1>4. \A u \in Thread : u = t
  BY DEF OneThread
<1> QED
  BY <1>1, <1>3, <1>4 DEF Current

LEMMA NextCurrent ==
  ASSUME OneThread
  PROVE  SInv /\ [Next]_vars => SInv'
<1>1. ASSUME SInv, UNCHANGED vars PROVE SInv'
  BY <1>1 DEF vars, SInv, Current, Typed, TypeOK, Appends
<1>2. ASSUME SInv, CrashAndReopen PROVE SInv'
  <2>1. /\ Typed' /\ log' \in survivors /\ survivors' = {log'} /\ IsLast(log', cache')
        /\ \A t \in Thread : call'[t] = Idle
    BY <1>2, CrashFacts DEF SInv
  <2> QED
    BY <1>2, <2>1, IdleFacts DEF SInv, Current
<1>3. ASSUME SInv, NEW t \in Thread, ThreadStep(t) PROVE SInv'
  BY <1>3, StepCurrent, StepTyped DEF SInv
<1> QED
  BY <1>1, <1>2, <1>3, NextSteps

LEMMA InitCurrent == Init => SInv
<1> SUFFICES ASSUME Init PROVE SInv
  OBVIOUS
<1>1. Present(Empty) = {}
  BY DEF Present, Empty
<1> QED
  BY <1>1, InitTyped, IdleFacts DEF SInv, Current, IsInterval, Init

\* With a single caller, as OpenRaft's log task is one, append_log_entry and
\* truncate_log_before leave no gap, wherever the machine stops.
THEOREM SerialNoGaps == ASSUME OneThread PROVE Spec => []NoGaps
<1>1. SInv => NoGaps
  BY DEF SInv, Current, NoGaps
<1> QED
  BY <1>1, InitCurrent, NextCurrent, PTL DEF Spec

\* With a single caller the cache of the last index is never stale between calls.
THEOREM SerialCacheCurrent == ASSUME OneThread, Thread # {} PROVE Spec => []CacheCurrent
<1>1. SInv => CacheCurrent
  <2> SUFFICES ASSUME SInv, \A t \in Thread : call[t] = Idle PROVE cache = None \/ IsLast(log, cache)
    BY DEF CacheCurrent
  <2>1. PICK t \in Thread : TRUE
    OBVIOUS
  <2> QED
    BY <2>1, IdleFacts DEF SInv, Current
<1> QED
  BY <1>1, InitCurrent, NextCurrent, PTL DEF Spec

\* With a single caller append_log_entry never replaces an entry.
THEOREM SerialNeverOverwrites == ASSUME OneThread PROVE Spec => NeverOverwritten
<1>1. SInv /\ [Next]_vars => [\A t \in Thread : AppendPut(t) => log[call[t].index] = NoEntry]_vars
  BY PutExtends
<1> QED
  BY <1>1, InitCurrent, NextCurrent, PTL DEF Spec, NeverOverwritten

=============================================================================
