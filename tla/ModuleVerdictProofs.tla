------------------------ MODULE ModuleVerdictProofs ------------------------
(***************************************************************************)
(* Proofs about what the module loader concludes, for every import graph:  *)
(* a cached module is complete, a command that succeeds has checked every  *)
(* module it read, and the graph it has checked has no cycle.              *)
(***************************************************************************)
EXTENDS ModuleLoaderProofs

-----------------------------------------------------------------------------
(* What the cache holds.                                                   *)

Known == module_cache \cup failed_modules

(* The clauses a frame has gone past were resolved. *)
ImportsDone(f) ==
    \A j \in DOMAIN text[f.mod].imports :
        f.phase = "exports" \/ j < f.next => text[f.mod].imports[j] \in Known

ReexportsDone(f) ==
    \A j \in DOMAIN text[f.mod].reexports :
        f.phase = "exports" /\ j < f.next => text[f.mod].reexports[j] \in module_cache

Done(f) == ImportsDone(f) /\ ReexportsDone(f)

(* A frame stands at the clause that asked for the load of m. *)
Awaits(f, m, via) ==
    /\ f.next <= Len(Clauses(f)) /\ Clauses(f)[f.next] = m
    /\ f.phase = IF via = "import" THEN "imports" ELSE "exports"

Finished(f) == f.phase = "exports" /\ f.next > Len(text[f.mod].reexports)

CachedRead == \A m \in module_cache : text[m].is = "program"

FramesDone == \A i \in DOMAIN stack : Done(stack[i])

FramesAwait ==
    \A i \in DOMAIN stack :
        i > 1 => Awaits(stack[i - 1], stack[i].mod, stack[i].via)

ReturnedCached == flow = Returned => Clause \in module_cache

RaisedAwaited ==
    flow.is = "raised" /\ stack # <<>> => Awaits(Top, flow.call.mod, flow.call.via)

CacheInv ==
    /\ CacheComplete /\ CachedRead /\ FramesDone /\ FramesAwait
    /\ ReturnedCached /\ RaisedAwaited

(* A frame of the stack, and the text of its module. *)
LEMMA StackFrame ==
    ASSUME TypeOK, NEW i \in DOMAIN stack
    PROVE  /\ stack[i] \in Frame /\ stack[i].mod \in Mods /\ stack[i].next \in Nat \ {0}
           /\ text[stack[i].mod].is = "program" /\ text[stack[i].mod] \in Texts
           /\ text[stack[i].mod].imports \in Seq(Mods \cup {NoFile})
           /\ text[stack[i].mod].reexports \in Seq(Mods \cup {NoFile})
<1>1. stack[i] \in Frame BY DEF TypeOK
<1>2. stack[i].mod \in Mods /\ stack[i].next \in Nat \ {0} BY <1>1 DEF Frame
<1>3. text[stack[i].mod].is = "program" BY DEF TypeOK
<1>4. text[stack[i].mod] \in Texts BY <1>2, <1>3 DEF TypeOK, Unread, Bad
<1> QED BY <1>1, <1>2, <1>3, <1>4, ProgramClauses

(* A step keeps the invariant when it forgets no verdict, rereads no       *)
(* module that was read, caches only what has finished, and leaves every   *)
(* frame, and what it waits for, alone or in order.                        *)
LEMMA CacheStep ==
    ASSUME TypeOK, CacheInv,
           module_cache \subseteq module_cache', failed_modules \subseteq failed_modules',
           module_cache' \subseteq Mods,
           \A m \in Mods : text[m].is = "program" => text'[m] = text[m],
           \A m \in module_cache' \ module_cache :
              \E i \in DOMAIN stack : stack[i].mod = m /\ Finished(stack[i]),
           \A i \in DOMAIN stack' :
              (i \in DOMAIN stack /\ stack'[i] = stack[i]) \/ Done(stack[i])',
           \A i \in DOMAIN stack' : i > 1 =>
              \/ /\ i \in DOMAIN stack /\ i - 1 \in DOMAIN stack
                 /\ stack'[i - 1] = stack[i - 1]
                 /\ stack'[i].mod = stack[i].mod /\ stack'[i].via = stack[i].via
              \/ Awaits(stack[i - 1], stack[i].mod, stack[i].via)',
           ReturnedCached', RaisedAwaited'
    PROVE  CacheInv'
<1>1. /\ CacheComplete /\ CachedRead /\ FramesDone /\ FramesAwait BY DEF CacheInv
<1>2. \A i \in DOMAIN stack : stack[i].mod \in Mods /\ text[stack[i].mod].is = "program"
  BY StackFrame
<1>3. Known \subseteq Known' BY DEF Known
<1>4. ASSUME NEW f, f.mod \in Mods, text[f.mod].is = "program"
      PROVE  /\ text'[f.mod] = text[f.mod]
             /\ Done(f) => Done(f)'
             /\ \A m, via : Awaits(f, m, via) => Awaits(f, m, via)'
  <2>1. text'[f.mod] = text[f.mod] BY <1>4
  <2>2. Done(f) => Done(f)' BY <1>3, <2>1 DEF Done, ImportsDone, ReexportsDone
  <2>3. Clauses(f)' = Clauses(f) BY <2>1 DEF Clauses
  <2> QED BY <2>1, <2>2, <2>3 DEF Awaits
<1>5. ASSUME NEW m \in module_cache'
      PROVE  /\ text'[m].is = "program"
             /\ \A j \in DOMAIN text'[m].imports : text'[m].imports[j] \in Known'
             /\ \A j \in DOMAIN text'[m].reexports :
                   text'[m].reexports[j] \in module_cache'
  <2>1. CASE m \in module_cache
    <3>1. m \in Mods /\ text[m].is = "program" BY <1>1, <2>1 DEF CachedRead, TypeOK
    <3>2. text'[m] = text[m] BY <3>1
    <3> QED BY <1>1, <1>3, <2>1, <3>1, <3>2 DEF CacheComplete, Known
  <2>2. CASE m \notin module_cache
    <3>1. PICK i \in DOMAIN stack : stack[i].mod = m /\ Finished(stack[i])
      BY <1>5, <2>2
    <3>2. m \in Mods /\ text[m].is = "program" BY <1>2, <3>1
    <3>3. text'[m] = text[m] BY <3>2
    <3>4. Done(stack[i]) BY <1>1 DEF FramesDone
    <3>5. stack[i].next \in Nat BY StackFrame
    <3>6. text[m].reexports \in Seq(Mods \cup {NoFile}) BY <3>1, StackFrame
    <3>7. ASSUME NEW j \in DOMAIN text[m].reexports
          PROVE  text[m].reexports[j] \in module_cache
      <4>1. j < stack[i].next BY <3>1, <3>5, <3>6, <3>7 DEF Finished
      <4> QED BY <3>1, <3>4, <3>7, <4>1 DEF Done, ReexportsDone, Finished
    <3>8. \A j \in DOMAIN text[m].imports : text[m].imports[j] \in Known
      BY <3>1, <3>4 DEF Done, ImportsDone, Finished
    <3> QED BY <1>3, <3>2, <3>3, <3>7, <3>8
  <2> QED BY <2>1, <2>2
<1>6. CacheComplete' /\ CachedRead' BY <1>5 DEF CacheComplete, CachedRead, Known
<1>7. FramesDone'
  <2> SUFFICES ASSUME NEW i \in DOMAIN stack' PROVE Done(stack[i])'
    BY DEF FramesDone
  <2>1. CASE i \in DOMAIN stack /\ stack'[i] = stack[i]
    <3>1. Done(stack[i]) BY <1>1, <2>1 DEF FramesDone
    <3> DEFINE f == stack[i]
    <3>2. f.mod \in Mods /\ text[f.mod].is = "program" /\ Done(f) BY <1>2, <2>1, <3>1
    <3>3. text'[f.mod] = text[f.mod] BY <3>2
    <3>4. stack'[i] = f BY <2>1
    <3> HIDE DEF f
    <3> QED BY <1>3, <3>2, <3>3, <3>4 DEF Done, ImportsDone, ReexportsDone
  <2> QED BY <2>1
<1>8. FramesAwait'
  <2> SUFFICES ASSUME NEW i \in DOMAIN stack', i > 1
               PROVE  Awaits(stack[i - 1], stack[i].mod, stack[i].via)'
    BY DEF FramesAwait
  <2>1. CASE /\ i \in DOMAIN stack /\ i - 1 \in DOMAIN stack
             /\ stack'[i - 1] = stack[i - 1]
             /\ stack'[i].mod = stack[i].mod /\ stack'[i].via = stack[i].via
    <3> DEFINE f == stack[i - 1]
    <3>1. Awaits(f, stack[i].mod, stack[i].via) BY <1>1, <2>1 DEF FramesAwait
    <3>2. f.mod \in Mods /\ text[f.mod].is = "program" BY <1>2, <2>1
    <3>3. text'[f.mod] = text[f.mod] BY <3>2
    <3>4. stack'[i - 1] = f BY <2>1
    <3> HIDE DEF f
    <3> QED BY <2>1, <3>1, <3>3, <3>4 DEF Awaits, Clauses
  <2> QED BY <2>1
<1> QED BY <1>6, <1>7, <1>8 DEF CacheInv

(* The frames below the innermost one, and the clause the last of them     *)
(* waits at.                                                               *)
LEMMA BelowFrames ==
    ASSUME TypeOK, FramesAwait, stack # <<>>
    PROVE  /\ Len(stack) \in Nat \ {0} /\ DOMAIN stack = 1 .. Len(stack)
           /\ Top = stack[Len(stack)]
           /\ DOMAIN Below = 1 .. Len(stack) - 1 /\ Len(Below) = Len(stack) - 1
           /\ \A i \in DOMAIN Below : i \in DOMAIN stack /\ Below[i] = stack[i]
           /\ Below # <<>> =>
                 /\ Len(stack) - 1 \in DOMAIN stack
                 /\ Below[Len(Below)] = stack[Len(stack) - 1]
                 /\ Awaits(stack[Len(stack) - 1], Top.mod, Top.via)
<1> DEFINE n == Len(stack)
<1>1. stack \in Seq(Frame) BY DEF TypeOK
<1>2. n \in Nat \ {0} /\ DOMAIN stack = 1 .. n /\ Top = stack[n] BY <1>1, TopFrame DEF Top
<1>3. /\ Below \in Seq(Frame) /\ Len(Below) = n - 1
      /\ \A i \in 1 .. n - 1 : Below[i] = stack[i]
  BY TopFrame
<1>4. DOMAIN Below = 1 .. n - 1 BY <1>2, <1>3
<1>5. \A i \in DOMAIN Below : i \in DOMAIN stack /\ Below[i] = stack[i]
  BY <1>2, <1>3, <1>4
<1>6. ASSUME Below # <<>>
      PROVE  n - 1 \in 1 .. n - 1 /\ n > 1 /\ n \in DOMAIN stack
  <2>1. Len(Below) # 0 BY <1>3, <1>6
  <2> QED BY <1>2, <1>3, <2>1
<1>7. Below # <<>> => Awaits(stack[n - 1], Top.mod, Top.via)
  BY <1>2, <1>6 DEF FramesAwait
<1> QED BY <1>2, <1>3, <1>4, <1>5, <1>6, <1>7

(* The innermost call ends with an error, its caller still at the clause.  *)
LEMMA RaiseCaches ==
    ASSUME TypeOK, CacheInv, stack # <<>>, NEW e, Raise(e),
           UNCHANGED <<text, module_cache, failed_modules>>
    PROVE  CacheInv'
<1>1. FramesAwait BY DEF CacheInv
<1>2. stack' = Below /\ flow'.is = "raised" /\ flow'.call = CallOf(Top)
  BY DEF Raise, Raised
<1>3. flow'.call.mod = Top.mod /\ flow'.call.via = Top.via BY <1>2 DEF CallOf
<1>4. flow' # Returned BY <1>2 DEF Returned
<1>5. ReturnedCached' BY <1>4 DEF ReturnedCached
<1>6. RaisedAwaited'
  <2> SUFFICES ASSUME stack' # <<>>
               PROVE  Awaits(Top, flow.call.mod, flow.call.via)'
    BY DEF RaisedAwaited
  <2> DEFINE f == stack[Len(stack) - 1]
  <2>1. Awaits(f, Top.mod, Top.via) BY <1>1, <1>2, BelowFrames
  <2>2. Top' = f BY <1>1, <1>2, BelowFrames DEF Top
  <2> HIDE DEF f
  <2> QED BY <1>3, <2>1, <2>2 DEF Awaits, Clauses
<1>7. \A i \in DOMAIN stack' : i \in DOMAIN stack /\ stack'[i] = stack[i]
  BY <1>1, <1>2, BelowFrames
<1>8. \A i \in DOMAIN stack' : i > 1 => i - 1 \in DOMAIN stack'
  BY <1>1, <1>2, BelowFrames
<1>9. module_cache' \subseteq Mods BY DEF TypeOK
<1> QED BY <1>5, <1>6, <1>7, <1>8, <1>9, CacheStep

(* The innermost frame goes past its clause, which was resolved.           *)
LEMMA AdvanceCaches ==
    ASSUME TypeOK, CacheInv, stack # <<>>, stack' = Advance(stack), flow' = Running,
           failed_modules \subseteq failed_modules', UNCHANGED <<text, module_cache>>,
           Top.phase = "imports" => Clause \in Known',
           Top.phase = "exports" => Clause \in module_cache
    PROVE  CacheInv'
<1> DEFINE n == Len(stack)
<1>0. PICK f : f = [Top EXCEPT !.next = @ + 1] OBVIOUS
<1>1. FramesAwait /\ FramesDone /\ n \in Nat \ {0} /\ DOMAIN stack = 1 .. n /\ Top = stack[n]
  BY BelowFrames DEF CacheInv
<1>2. /\ stack' \in Seq(Frame) /\ Len(stack') = n
      /\ \A i \in 1 .. n - 1 : stack'[i] = stack[i]
      /\ stack'[n] = f
  BY <1>0, AdvanceFrame
<1>3. DOMAIN stack' = 1 .. n BY <1>1, <1>2
<1>4. Top \in Frame BY TopFrame
<1>5. /\ f.mod = Top.mod /\ f.via = Top.via /\ f.phase = Top.phase
      /\ f.next = Top.next + 1
  BY <1>0, <1>4 DEF Frame
<1> HIDE DEF n
<1>6. Done(f)'
  <2>1. Done(Top) BY <1>1 DEF FramesDone
  <2>2. Top.next \in Nat /\ Top.phase \in {"imports", "exports"} BY <1>4 DEF Frame
  <2>3. /\ text[Top.mod].imports \in Seq(Mods \cup {NoFile})
        /\ text[Top.mod].reexports \in Seq(Mods \cup {NoFile})
    BY <1>1, StackFrame
  <2>4. Known \subseteq Known' BY DEF Known
  <2>5. ImportsDone(f)'
    <3> SUFFICES ASSUME NEW j \in DOMAIN text[Top.mod].imports,
                        Top.phase = "exports" \/ j < Top.next + 1
                 PROVE  text[Top.mod].imports[j] \in Known'
      BY <1>5 DEF ImportsDone
    <3>1. CASE Top.phase = "exports" \/ j < Top.next
      BY <2>1, <2>4, <3>1 DEF Done, ImportsDone
    <3>2. CASE Top.phase = "imports" /\ j = Top.next
      BY <3>2 DEF Clause, Clauses
    <3>3. j \in Nat BY <2>3
    <3> QED BY <2>2, <3>1, <3>2, <3>3
  <2>6. ReexportsDone(f)'
    <3> SUFFICES ASSUME NEW j \in DOMAIN text[Top.mod].reexports,
                        Top.phase = "exports", j < Top.next + 1
                 PROVE  text[Top.mod].reexports[j] \in module_cache
      BY <1>5 DEF ReexportsDone
    <3>1. CASE j < Top.next BY <2>1, <3>1 DEF Done, ReexportsDone
    <3>2. CASE j = Top.next BY <3>2 DEF Clause, Clauses
    <3>3. j \in Nat BY <2>3
    <3> QED BY <2>2, <3>1, <3>2, <3>3
  <2> QED BY <2>5, <2>6 DEF Done
<1>7. \A i \in DOMAIN stack' :
        (i \in DOMAIN stack /\ stack'[i] = stack[i]) \/ Done(stack[i])'
  <2> SUFFICES ASSUME NEW i \in 1 .. n, i \notin 1 .. n - 1 PROVE Done(stack[i])'
    BY <1>1, <1>2, <1>3
  <2>1. i = n BY <1>1
  <2> QED BY <1>2, <1>6, <2>1 DEF Done, ImportsDone, ReexportsDone
<1>8. \A i \in DOMAIN stack' : i > 1 =>
         /\ i \in DOMAIN stack /\ i - 1 \in DOMAIN stack
         /\ stack'[i - 1] = stack[i - 1]
         /\ stack'[i].mod = stack[i].mod /\ stack'[i].via = stack[i].via
  <2> SUFFICES ASSUME NEW i \in 1 .. n, i > 1
               PROVE  /\ i - 1 \in 1 .. n - 1 /\ i - 1 \in 1 .. n
                      /\ stack'[i].mod = stack[i].mod /\ stack'[i].via = stack[i].via
    BY <1>1, <1>2, <1>3
  <2>1. i = n \/ i \in 1 .. n - 1 BY <1>1
  <2> QED BY <1>1, <1>2, <1>5, <2>1
<1>9. ReturnedCached' /\ RaisedAwaited'
  BY DEF ReturnedCached, RaisedAwaited, Running, Returned
<1>10. module_cache' \subseteq Mods BY DEF TypeOK
<1> QED BY <1>7, <1>8, <1>9, <1>10, CacheStep

(* What was read of a module stays.                                        *)
LEMMA LoadKeepsText ==
    ASSUME TypeOK, NEW m \in Mods, NEW via, NEW asker, LoadModule(m, via, asker)
    PROVE  /\ \A k \in Mods : text[k].is = "program" => text'[k] = text[k]
           /\ \A k \in Mods : text'[k] # Unread => k = m \/ text[k] # Unread
<1>1. PICK t \in IF text[m] = Unread THEN Texts ELSE {text[m]} :
         text' = [text EXCEPT ![m] = t]
  BY DEF LoadModule
<1>2. text \in [Mods -> Texts \cup {Unread}] BY DEF TypeOK
<1>3. text[m].is = "program" => t = text[m] BY <1>1 DEF Unread, Bad
<1> QED BY <1>1, <1>2, <1>3

(* A load starts: the module's frame goes on the stack, its caller at the  *)
(* clause that asked for it; or the file cannot be read.                   *)
LEMMA LoadCaches ==
    ASSUME TypeOK, CacheInv, NEW m \in Mods, NEW via, NEW asker,
           LoadModule(m, via, asker), UNCHANGED <<module_cache, failed_modules>>,
           stack # <<>> => Awaits(Top, m, via)
    PROVE  CacheInv'
<1> DEFINE n == Len(stack)
<1>0. stack \in Seq(Frame) /\ n \in Nat /\ DOMAIN stack = 1 .. n BY DEF TypeOK
<1>1. \A k \in Mods : text[k].is = "program" => text'[k] = text[k] BY LoadKeepsText
<1>3. ASSUME stack # <<>>
      PROVE  \A k : k = stack[n] => Awaits(k, m, via)'
  <2>1. n \in DOMAIN stack /\ Top = stack[n] BY <1>3, TopFrame DEF Top
  <2>2. text'[stack[n].mod] = text[stack[n].mod] BY <1>1, <2>1, StackFrame
  <2> SUFFICES ASSUME NEW k, k = stack[n] PROVE Awaits(k, m, via)' OBVIOUS
  <2>3. Awaits(k, m, via) BY <1>3, <2>1
  <2> QED BY <2>2, <2>3 DEF Awaits, Clauses
<1>4. module_cache' \subseteq Mods BY DEF TypeOK
<1>5. CASE stack' = stack /\ flow'.is = "raised" /\ flow'.call.mod = m /\ flow'.call.via = via
  <2>1. ReturnedCached' BY <1>5 DEF ReturnedCached, Returned
  <2>2. RaisedAwaited'
    <3> SUFFICES ASSUME stack # <<>> PROVE Awaits(Top, m, via)'
      BY <1>5 DEF RaisedAwaited
    <3>1. PICK k : k = stack[n] OBVIOUS
    <3>2. Awaits(k, m, via)' BY <1>3, <3>1
    <3>3. Top' = k BY <1>5, <3>1 DEF Top
    <3> QED BY <3>2, <3>3 DEF Awaits, Clauses
  <2>3. \A i \in DOMAIN stack' : i > 1 => i - 1 \in DOMAIN stack BY <1>0, <1>5
  <2> QED BY <1>1, <1>4, <1>5, <2>1, <2>2, <2>3, CacheStep
<1>6. ASSUME NEW f, f = [mod |-> m, via |-> via, prev |-> current_source,
                         phase |-> "imports", next |-> 1],
             stack' = Append(stack, f), flow' = Running,
             text'[m].is = "program", text'[m] \in Texts
      PROVE  CacheInv'
  <2>1. /\ f.mod = m /\ f.via = via /\ f.phase = "imports" /\ f.next = 1 BY <1>6
  <2> HIDE DEF n
  <2>2. /\ DOMAIN stack' = 1 .. n + 1 /\ stack'[n + 1] = f
        /\ \A i \in 1 .. n : stack'[i] = stack[i]
    BY <1>0, <1>6 DEF n
  <2>3. Done(f)'
    <3>1. text'[m].imports \in Seq(Mods \cup {NoFile}) BY <1>6, ProgramClauses
    <3>2. \A j \in DOMAIN text'[m].imports : ~(j < 1) BY <3>1
    <3> QED BY <2>1, <3>2 DEF Done, ImportsDone, ReexportsDone
  <2>4. \A i \in DOMAIN stack' :
          (i \in DOMAIN stack /\ stack'[i] = stack[i]) \/ Done(stack[i])'
    <3> SUFFICES ASSUME NEW i \in 1 .. n + 1, i \notin 1 .. n PROVE Done(stack[i])'
      BY <1>0, <2>2
    <3>1. i = n + 1 BY <1>0
    <3> QED BY <2>2, <2>3, <3>1 DEF Done, ImportsDone, ReexportsDone
  <2>5. \A i \in DOMAIN stack' : i > 1 =>
          \/ /\ i \in DOMAIN stack /\ i - 1 \in DOMAIN stack
             /\ stack'[i - 1] = stack[i - 1]
             /\ stack'[i].mod = stack[i].mod /\ stack'[i].via = stack[i].via
          \/ Awaits(stack[i - 1], stack[i].mod, stack[i].via)'
    <3> SUFFICES ASSUME NEW i \in 1 .. n + 1, i > 1
                 PROVE  \/ /\ i \in 1 .. n /\ i - 1 \in 1 .. n
                           /\ stack'[i - 1] = stack[i - 1] /\ stack'[i] = stack[i]
                        \/ Awaits(stack[i - 1], stack[i].mod, stack[i].via)'
      BY <1>0, <2>2
    <3>1. CASE i \in 1 .. n BY <1>0, <2>2, <3>1
    <3>2. CASE i = n + 1
      <4>1. PICK k : k = stack[n] OBVIOUS
      <4>2. n \in 1 .. n /\ i - 1 = n /\ stack # <<>> BY <1>0, <3>2
      <4>3. Awaits(k, m, via)' BY <1>3, <4>1, <4>2 DEF n
      <4>4. stack'[i - 1] = k /\ stack'[i].mod = m /\ stack'[i].via = via
        BY <2>1, <2>2, <3>2, <4>1, <4>2
      <4> QED BY <4>3, <4>4 DEF Awaits, Clauses
    <3> QED BY <1>0, <3>1, <3>2
  <2>6. ReturnedCached' /\ RaisedAwaited'
    BY <1>6 DEF ReturnedCached, RaisedAwaited, Running, Returned
  <2> QED BY <1>1, <1>4, <2>4, <2>5, <2>6, CacheStep
<1>7. PICK t \in IF text[m] = Unread THEN Texts ELSE {text[m]} :
        /\ text' = [text EXCEPT ![m] = t]
        /\ \/ t.is = "unreadable" /\ UNCHANGED stack
              /\ flow' = Raised([kind |-> "unreadable", at |-> asker, to |-> m],
                                [mod |-> m, via |-> via, prev |-> current_source])
           \/ t.is = "syntax error" /\ UNCHANGED stack
              /\ flow' = Raised([kind |-> "syntax", at |-> m, to |-> m],
                                [mod |-> m, via |-> via, prev |-> current_source])
           \/ t.is = "program" /\ flow' = Running
              /\ stack' = Append(stack, [mod |-> m, via |-> via, prev |-> current_source,
                                         phase |-> "imports", next |-> 1])
  BY DEF LoadModule
<1>8. CASE t.is # "program"
  <2> DEFINE c == [mod |-> m, via |-> via, prev |-> current_source]
  <2>1. PICK e : stack' = stack /\ flow' = Raised(e, c) BY <1>7, <1>8
  <2>2. flow'.is = "raised" /\ flow'.call = c BY <2>1 DEF Raised
  <2>3. c.mod = m /\ c.via = via OBVIOUS
  <2> HIDE DEF c
  <2> QED BY <1>5, <2>1, <2>2, <2>3
<1>9. CASE t.is = "program"
  <2>1. text \in [Mods -> Texts \cup {Unread}] BY DEF TypeOK
  <2>2. text'[m] = t BY <1>7, <2>1
  <2>3. t \in Texts BY <1>7, <1>9, <2>1 DEF Unread, Bad
  <2> QED BY <1>6, <1>7, <1>9, <2>2, <2>3
<1> QED BY <1>8, <1>9

(* The innermost module has finished: it is cached and its caller goes on  *)
(* at the clause that names it.                                            *)
LEMMA ReturnCaches ==
    ASSUME LoaderInv, CacheInv, ReturnModule
    PROVE  CacheInv'
<1>0. TypeOK BY DEF LoaderInv
<1>1. /\ stack # <<>> /\ Top.phase = "exports" /\ Top.next > Len(Clauses(Top))
      /\ module_cache' = module_cache \cup {Top.mod} /\ stack' = Below /\ flow' = Returned
      /\ UNCHANGED <<text, failed_modules>>
  BY DEF ReturnModule, ExportsDone, InPhase
<1>2. FramesAwait BY DEF CacheInv
<1>3. Len(stack) \in DOMAIN stack /\ Top = stack[Len(stack)] BY <1>0, <1>1, TopFrame DEF Top
<1>4. Top.mod \in Mods BY <1>0, <1>3, StackFrame
<1>5. Finished(Top) BY <1>1 DEF Finished, Clauses
<1>6. \A m \in module_cache' \ module_cache :
        \E i \in DOMAIN stack : stack[i].mod = m /\ Finished(stack[i])
  BY <1>1, <1>3, <1>5
<1>7. /\ \A i \in DOMAIN stack' : i \in DOMAIN stack /\ stack'[i] = stack[i]
      /\ \A i \in DOMAIN stack' : i > 1 => i - 1 \in DOMAIN stack'
  BY <1>0, <1>1, <1>2, BelowFrames
<1>8. ReturnedCached'
  <2>1. stack' # <<>>
    <3>1. Len(stack) > 1
      <4>1. Top.via \in Nested BY DEF ReturnModule, Nested
      <4>2. Len(stack) \in Nat \ {0} BY <1>0, <1>1, TopFrame
      <4> QED BY <1>3, <4>1 DEF LoaderInv, FramesOK
    <3> QED BY <1>0, <1>1, <1>2, <3>1, BelowFrames
  <2>2. PICK f : f = stack[Len(stack) - 1] OBVIOUS
  <2>3. Awaits(f, Top.mod, Top.via) /\ stack'[Len(stack')] = f
    BY <1>0, <1>1, <1>2, <2>1, <2>2, BelowFrames
  <2>4. Clause' = Clauses(f)[f.next] BY <1>1, <2>3 DEF Clause, Top, Clauses
  <2> QED BY <1>1, <2>3, <2>4 DEF Awaits, ReturnedCached
<1>9. RaisedAwaited' BY <1>1 DEF RaisedAwaited, Returned
<1>10. module_cache' \subseteq Mods BY <1>0, <1>1, <1>4 DEF TypeOK
<1> QED BY <1>0, <1>1, <1>6, <1>7, <1>8, <1>9, <1>10, CacheStep

(* An entry of the command ends, and with it every load under way; the     *)
(* entry is cached if its module has finished.                             *)
LEMMA EmptyCaches ==
    ASSUME TypeOK, CacheInv, stack' = <<>>, flow' = Running,
           module_cache \subseteq module_cache', failed_modules \subseteq failed_modules',
           module_cache' \subseteq Mods, UNCHANGED text,
           \A m \in module_cache' \ module_cache :
              \E i \in DOMAIN stack : stack[i].mod = m /\ Finished(stack[i])
    PROVE  CacheInv'
<1>1. DOMAIN stack' = {} OBVIOUS
<1>2. ReturnedCached' /\ RaisedAwaited'
  BY DEF ReturnedCached, RaisedAwaited, Running, Returned
<1> QED BY <1>1, <1>2, CacheStep

(* Nothing but the attribution, the errors and the command line changes.   *)
LEMMA SameCaches ==
    ASSUME CacheInv,
           UNCHANGED <<text, stack, flow, module_cache, failed_modules>>
    PROVE  CacheInv'
<1>1. CacheComplete' /\ CachedRead' BY DEF CacheInv, CacheComplete, CachedRead
<1>2. FramesDone'
  BY DEF CacheInv, FramesDone, Done, ImportsDone, ReexportsDone, Known
<1>3. FramesAwait' /\ RaisedAwaited' /\ ReturnedCached'
  BY DEF CacheInv, FramesAwait, RaisedAwaited, ReturnedCached, Awaits, Clauses, Clause, Top
<1> QED BY <1>1, <1>2, <1>3 DEF CacheInv

(* Inference succeeded: every import is resolved, no re-export yet.        *)
LEMMA InferCaches ==
    ASSUME TypeOK, CacheInv, InferOk
    PROVE  CacheInv'
<1> DEFINE n == Len(stack) - 1
<1>0. PICK f : f = [Top EXCEPT !.phase = "exports", !.next = 1] OBVIOUS
<1>1. /\ stack # <<>> /\ flow = Running /\ Top.phase = "imports"
      /\ Top.next > Len(Clauses(Top)) /\ stack' = Append(Below, f)
      /\ UNCHANGED <<text, flow, module_cache, failed_modules>>
  BY <1>0 DEF InferOk, ImportsBound, InPhase, verdicts
<1>2. FramesAwait /\ FramesDone BY DEF CacheInv
<1>3. /\ n \in Nat /\ Len(stack) = n + 1 /\ Top \in Frame /\ Top = stack[n + 1]
      /\ DOMAIN stack = 1 .. n + 1 /\ Below \in Seq(Frame) /\ Len(Below) = n
      /\ \A i \in 1 .. n : Below[i] = stack[i]
  <2>1. /\ Len(stack) \in Nat \ {0} /\ DOMAIN stack = 1 .. Len(stack)
        /\ Top = stack[Len(stack)]
    BY <1>1, <1>2, BelowFrames
  <2>2. /\ Top \in Frame /\ Below \in Seq(Frame) /\ Len(Below) = Len(stack) - 1
        /\ \A i \in 1 .. Len(stack) - 1 : Below[i] = stack[i]
    BY <1>1, TopFrame
  <2>3. n \in Nat /\ Len(stack) = n + 1 BY <2>1
  <2> QED BY <2>1, <2>2, <2>3
<1>4. /\ f.mod = Top.mod /\ f.via = Top.via /\ f.phase = "exports" /\ f.next = 1
  BY <1>0, <1>3 DEF Frame
<1> HIDE DEF n
<1>5. /\ DOMAIN stack' = 1 .. n + 1 /\ stack'[n + 1] = f
      /\ \A i \in 1 .. n : stack'[i] = stack[i]
  BY <1>1, <1>3
<1>6. Done(f)'
  <2>1. n + 1 \in DOMAIN stack BY <1>3
  <2>2. /\ text[Top.mod].imports \in Seq(Mods \cup {NoFile})
        /\ text[Top.mod].reexports \in Seq(Mods \cup {NoFile})
        /\ Top.next \in Nat
    BY <1>3, <2>1, StackFrame
  <2>3. \A j \in DOMAIN text[Top.mod].imports : j < Top.next
    BY <1>1, <2>2 DEF Clauses
  <2>4. Done(Top) BY <1>2, <1>3, <2>1 DEF FramesDone
  <2>5. \A j \in DOMAIN text[Top.mod].reexports : ~(j < 1) BY <2>2
  <2>6. \A j \in DOMAIN text[Top.mod].imports : text[Top.mod].imports[j] \in Known
    BY <2>3, <2>4 DEF Done, ImportsDone
  <2>7. Known' = Known /\ text' = text BY <1>1 DEF Known
  <2> QED BY <1>4, <2>5, <2>6, <2>7 DEF Done, ImportsDone, ReexportsDone
<1>7. \A i \in DOMAIN stack' :
        (i \in DOMAIN stack /\ stack'[i] = stack[i]) \/ Done(stack[i])'
  <2> SUFFICES ASSUME NEW i \in 1 .. n + 1, i \notin 1 .. n PROVE Done(stack[i])'
    BY <1>3, <1>5
  <2>1. i = n + 1 BY <1>3
  <2> QED BY <1>5, <1>6, <2>1 DEF Done, ImportsDone, ReexportsDone
<1>8. \A i \in DOMAIN stack' : i > 1 =>
         /\ i \in DOMAIN stack /\ i - 1 \in DOMAIN stack
         /\ stack'[i - 1] = stack[i - 1]
         /\ stack'[i].mod = stack[i].mod /\ stack'[i].via = stack[i].via
  <2> SUFFICES ASSUME NEW i \in 1 .. n + 1, i > 1
               PROVE  /\ i - 1 \in 1 .. n /\ i - 1 \in 1 .. n + 1
                      /\ stack'[i].mod = stack[i].mod /\ stack'[i].via = stack[i].via
    BY <1>3, <1>5
  <2>1. i = n + 1 \/ i \in 1 .. n BY <1>3
  <2> QED BY <1>3, <1>4, <1>5, <2>1
<1>9. ReturnedCached' /\ RaisedAwaited'
  BY <1>1 DEF ReturnedCached, RaisedAwaited, Running, Returned
<1>10. module_cache' \subseteq Mods BY <1>1 DEF TypeOK
<1> QED BY <1>1, <1>7, <1>8, <1>9, <1>10, CacheStep

(* A clause is loaded, or is in the cache.                                 *)
LEMMA ClauseCaches ==
    ASSUME LoaderInv, CacheInv, NEW ph, NEW via \in Nested, AtClause(ph),
           ph = IF via = "import" THEN "imports" ELSE "exports",
           Clause \in Mods, LoadImported(Clause, via),
           UNCHANGED <<module_cache, failed_modules>>
    PROVE  CacheInv'
<1>0. TypeOK BY DEF LoaderInv
<1>1. /\ stack # <<>> /\ Top.phase = ph /\ Top.next <= Len(Clauses(Top))
  BY DEF AtClause, InPhase
<1>2. Awaits(Top, Clause, via) BY <1>1 DEF Awaits, Clause
<1>3. CASE LoadModule(Clause, via, Top.mod) BY <1>0, <1>2, <1>3, LoadCaches
<1>4. CASE Clause \in module_cache /\ flow' = Returned /\ UNCHANGED <<text, stack>>
  <2>1. ReturnedCached' BY <1>4 DEF ReturnedCached, Clause, Clauses, Top
  <2>2. RaisedAwaited' BY <1>4 DEF RaisedAwaited, Returned
  <2>3. stack \in Seq(Frame) /\ module_cache' \subseteq Mods BY <1>0 DEF TypeOK
  <2>4. \A i \in DOMAIN stack : i > 1 => i - 1 \in DOMAIN stack BY <2>3
  <2> QED BY <1>0, <1>4, <2>1, <2>2, <2>3, <2>4, CacheStep
<1> QED BY <1>3, <1>4 DEF LoadImported

LEMMA ImportCaches ==
    ASSUME LoaderInv, CacheInv, ResolveImports
    PROVE  CacheInv'
<1>0. TypeOK /\ FlowOK /\ RaisedOK BY DEF LoaderInv
<1>1. CASE ImportUnresolved \/ ImportCircular
  BY <1>0, <1>1, RaiseCaches
     DEF ImportUnresolved, ImportCircular, AtClause, InPhase, verdicts
<1>2. CASE ImportFailed
  <2>1. stack # <<>> /\ Top.phase = "imports" /\ Clause \in failed_modules
    BY <1>2 DEF ImportFailed, AtClause, InPhase
  <2>2. flow' = Running /\ stack' = Advance(stack)
        /\ UNCHANGED <<text, module_cache, failed_modules>>
    BY <1>2 DEF ImportFailed, AtClause, InPhase, verdicts
  <2>3. Clause \in Known' BY <2>1, <2>2 DEF Known
  <2> QED BY <1>0, <2>1, <2>2, <2>3, AdvanceCaches
<1>3. CASE ImportLoad
  <2>1. AtClause("imports") /\ Clause \in Mods /\ LoadImported(Clause, "import")
        /\ UNCHANGED <<module_cache, failed_modules>>
    BY <1>3 DEF ImportLoad, verdicts
  <2>2. "import" \in Nested BY DEF Nested
  <2> QED BY <2>1, <2>2, ClauseCaches
<1>4. CASE BindNames
  <2>1. stack # <<>> /\ flow = Returned /\ UNCHANGED <<text, module_cache, failed_modules>>
    BY <1>4 DEF BindNames, verdicts
  <2>2. Clause \in module_cache BY <2>1 DEF CacheInv, ReturnedCached
  <2>3. CASE stack' = Advance(stack) /\ flow' = Running
    <3>1. Clause \in Known' BY <2>1, <2>2 DEF Known
    <3> QED BY <1>0, <2>1, <2>2, <2>3, <3>1, AdvanceCaches
  <2>4. CASE Raise(ErrorHere("no export", Clause))
    BY <1>0, <2>1, <2>4, RaiseCaches
  <2> QED BY <1>4, <2>3, <2>4 DEF BindNames
<1>5. CASE CatchImport
  <2>1. /\ flow.is = "raised" /\ flow.call.via = "import" /\ UNCHANGED <<text, module_cache>>
        /\ stack' = Advance(stack) /\ flow' = Running
        /\ failed_modules' = failed_modules \cup {flow.call.mod}
    BY <1>5 DEF CatchImport
  <2>2. stack # <<>> BY <1>0, <2>1 DEF RaisedOK, Nested
  <2>3. Awaits(Top, flow.call.mod, "import") BY <2>1, <2>2 DEF CacheInv, RaisedAwaited
  <2>4. Clause = flow.call.mod /\ Top.phase = "imports" BY <2>3 DEF Awaits, Clause
  <2>5. Clause \in Known' BY <2>1, <2>4 DEF Known
  <2> QED BY <1>0, <2>1, <2>2, <2>4, <2>5, AdvanceCaches
<1> QED BY <1>1, <1>2, <1>3, <1>4, <1>5 DEF ResolveImports

LEMMA ExportCaches ==
    ASSUME LoaderInv, CacheInv, ComputeExportTable
    PROVE  CacheInv'
<1>0. TypeOK /\ FlowOK /\ RaisedOK BY DEF LoaderInv
<1>1. CASE ReexportUnresolved \/ ReexportCircular
  BY <1>0, <1>1, RaiseCaches
     DEF ReexportUnresolved, ReexportCircular, AtClause, InPhase, verdicts
<1>2. CASE ReexportLoad
  <2>1. AtClause("exports") /\ Clause \in Mods /\ LoadImported(Clause, "reexport")
        /\ UNCHANGED <<module_cache, failed_modules>>
    BY <1>2 DEF ReexportLoad, verdicts
  <2>2. "reexport" \in Nested BY DEF Nested
  <2> QED BY <2>1, <2>2, ClauseCaches
<1>3. CASE PropagateReexport
  <2>1. stack # <<>> BY <1>0, <1>3 DEF PropagateReexport, RaisedOK, Nested
  <2> QED BY <1>0, <1>3, <2>1, RaiseCaches DEF PropagateReexport, verdicts
<1> QED BY <1>1, <1>2, <1>3 DEF ComputeExportTable

LEMMA CommandCaches ==
    ASSUME LoaderInv, CacheInv, Commands
    PROVE  CacheInv'
<1>0. TypeOK /\ IdleOK BY DEF LoaderInv
<1>1. module_cache \subseteq Mods /\ failed_modules \subseteq Mods BY <1>0 DEF TypeOK
<1>2. CASE ForeignEntry \/ AllChecked
  BY <1>2, SameCaches DEF ForeignEntry, AllChecked, verdicts
<1>3. CASE SkipEntry
  BY <1>0, <1>1, <1>3, EmptyCaches DEF SkipEntry, EndEntry, Idle, verdicts
<1>4. CASE StartEntry \/ StartModule
  <2>1. PICK via \in {"many", "module"} :
           /\ Idle /\ UNCHANGED <<module_cache, failed_modules>>
           /\ LoadModule(Head(files), via, Head(files))
    BY <1>4 DEF StartEntry, StartModule, verdicts
  <2>2. Head(files) \in Mods BY <1>4, OneFile DEF StartEntry, StartModule, LoaderInv
  <2>3. stack = <<>> BY <2>1 DEF Idle
  <2> QED BY <1>0, <2>1, <2>2, <2>3, LoadCaches
<1>5. CASE EntryOk
  <2>1. /\ stack # <<>> /\ flow = Running /\ Top.via = "many" /\ Top.phase = "exports"
        /\ Top.next > Len(Clauses(Top)) /\ stack' = Below
        /\ flow' = Running /\ module_cache' = module_cache \cup {Top.mod}
        /\ UNCHANGED <<text, failed_modules>>
    BY <1>5 DEF EntryOk, ExportsDone, InPhase, EndEntry
  <2>2. "many" \notin Nested BY DEF Nested
  <2>3. Below = <<>> /\ Top.mod \in Mods BY <2>1, <2>2, EndsFrame
  <2>4. Finished(Top) BY <2>1 DEF Finished, Clauses
  <2>5. Len(stack) \in DOMAIN stack /\ Top = stack[Len(stack)]
    BY <1>0, <2>1, TopFrame DEF Top
  <2> QED BY <1>0, <1>1, <2>1, <2>3, <2>4, <2>5, EmptyCaches
<1>6. CASE EntryFails
  <2>1. /\ flow.is = "raised" /\ flow.call.via = "many" /\ flow' = Running
        /\ UNCHANGED <<text, stack, module_cache>> /\ failed_modules \subseteq failed_modules'
    BY <1>6 DEF EntryFails, EndEntry
  <2>2. "many" \notin Nested BY DEF Nested
  <2>3. stack = <<>> BY <2>1, <2>2, EndsRaised
  <2> QED BY <1>0, <1>1, <2>1, <2>3, EmptyCaches
<1>7. CASE ModuleOk \/ ModuleFails \/ FileSyntaxError \/ FileFails \/ FileInferred
  <2>1. \E code, d : Exit(code, d)
    BY <1>7 DEF ModuleOk, ModuleFails, FileSyntaxError, FileFails, FileInferred
  <2>2. stack' = <<>> /\ flow' = Running /\ UNCHANGED <<text, module_cache, failed_modules>>
    BY <2>1 DEF Exit, verdicts
  <2> QED BY <1>0, <1>1, <2>2, EmptyCaches
<1>8. CASE StartFile
  <2>1. module_cache = {} /\ flow = Running /\ stack = <<>>
    BY <1>0, <1>8 DEF StartFile, IdleOK, Idle
  <2>2. module_cache' = {} /\ flow' = Running BY <1>8, <2>1 DEF StartFile, verdicts
  <2>3. CacheComplete' /\ CachedRead' BY <2>2 DEF CacheComplete, CachedRead
  <2>4. PICK f : /\ stack' = <<f>> /\ f.phase = "imports" /\ f.next = 1
                 /\ f.mod = Head(files)
    BY <1>8 DEF StartFile
  <2>6. DOMAIN stack' = {1} /\ stack'[1] = f BY <2>4
  <2>7. /\ text'[f.mod].imports \in Seq(Mods \cup {NoFile})
        /\ text'[f.mod].reexports \in Seq(Mods \cup {NoFile})
    <3>1. PICK t \in Programs : text' = [text EXCEPT ![Head(files)] = t]
      BY <1>8 DEF StartFile
    <3>2. t \in Texts BY DEF Texts
    <3>3. Head(files) \in Mods BY <1>8, OneFile DEF StartFile, LoaderInv
    <3>4. text'[f.mod] = t BY <1>0, <2>4, <3>1, <3>3 DEF TypeOK
    <3> QED BY <3>2, <3>4, ProgramClauses
  <2>8. FramesDone'
    <3>1. /\ \A j \in DOMAIN text'[f.mod].imports : ~(j < 1)
          /\ \A j \in DOMAIN text'[f.mod].reexports : ~(j < 1)
      BY <2>7
    <3> QED BY <2>4, <2>6, <3>1 DEF FramesDone, Done, ImportsDone, ReexportsDone
  <2>9. FramesAwait' BY <2>6 DEF FramesAwait
  <2>10. ReturnedCached' /\ RaisedAwaited'
    BY <2>2 DEF ReturnedCached, RaisedAwaited, Running, Returned
  <2> QED BY <2>3, <2>8, <2>9, <2>10 DEF CacheInv
<1> QED BY <1>2, <1>3, <1>4, <1>5, <1>6, <1>7, <1>8 DEF Commands

(* Every step of the loader and of the commands keeps the invariant.       *)
LEMMA CacheInductive == LoaderInv /\ CacheInv /\ [Next]_vars => CacheInv'
<1> SUFFICES ASSUME LoaderInv, CacheInv, [Next]_vars PROVE CacheInv' OBVIOUS
<1>0. TypeOK BY DEF LoaderInv
<1>1. CASE ResolveImports BY <1>1, ImportCaches
<1>2. CASE InferOk BY <1>0, <1>2, InferCaches
<1>3. CASE InferFails
  BY <1>0, <1>3, RaiseCaches DEF InferFails, ImportsBound, InPhase, verdicts
<1>4. CASE ComputeExportTable BY <1>4, ExportCaches
<1>5. CASE ReturnModule BY <1>5, ReturnCaches
<1>6. CASE Commands BY <1>6, CommandCaches
<1>7. CASE UNCHANGED vars BY <1>7, SameCaches DEF vars, verdicts
<1> QED BY <1>1, <1>2, <1>3, <1>4, <1>5, <1>6, <1>7 DEF Next

LEMMA CacheInit == Init => CacheInv
<1> SUFFICES ASSUME Init PROVE CacheInv OBVIOUS
<1>1. stack = <<>> /\ flow = Running /\ module_cache = {} BY DEF Init
<1>2. DOMAIN stack = {} BY <1>1
<1> QED BY <1>1, <1>2 DEF CacheInv, CacheComplete, CachedRead, FramesDone, FramesAwait,
                         ReturnedCached, RaisedAwaited, Running, Returned

(* What importers get from the cache is complete: every module it imports  *)
(* has a verdict and every module it re-exports was checked (load_module,  *)
(* compute_export_table, load_imported), whatever failed on the way.       *)
THEOREM CachedIsComplete == Spec => []CacheComplete
<1>1. Init => LoaderInv /\ CacheInv BY InitOK, CacheInit
<1>2. (LoaderInv /\ CacheInv) /\ [Next]_vars => (LoaderInv /\ CacheInv)'
  BY Inductive, CacheInductive
<1>3. LoaderInv /\ CacheInv => CacheComplete BY DEF CacheInv
<1> QED BY <1>1, <1>2, <1>3, PTL DEF Spec

-----------------------------------------------------------------------------
(* What a success means.                                                   *)

(* A module that was read is in the cache, or being resolved, or its       *)
(* failure is known to the command.                                        *)
Accounted(m) ==
    \/ m \in module_cache
    \/ \E i \in DOMAIN stack : stack[i].mod = m /\ stack[i].via # "file"
    \/ flow.is = "raised" \/ errors # {} \/ failed \/ exit = "failure"

(* Only a command that has not ended is at work. *)
EndedIdle == exit # "running" => stack = <<>> /\ flow = Running

(* `failed` is check_many's count.  A module that failed left an error     *)
(* behind, or made the command fail; so did whatever was shown.            *)
FailuresKnown ==
    /\ command # "many" => ~failed
    /\ failed_modules # {} => errors # {} \/ failed
    /\ printed # {} => failed \/ exit = "failure"

AllAccounted == command # "module" => \A m \in Mods : loads[m] > 0 => Accounted(m)

(* run_inference reads its own file without load_module. *)
ReadIsLoaded == command # "file" => \A m \in Mods : text[m] # Unread => loads[m] > 0

VerdictInv ==
    /\ EndedIdle /\ FailuresKnown /\ AllAccounted /\ ReadIsLoaded
    /\ SuccessMeansChecked

(* A command at work has not ended. *)
LEMMA AtWork ==
    ASSUME VerdictInv, stack # <<>> \/ flow # Running
    PROVE  exit = "running"
BY DEF VerdictInv, EndedIdle

(* A step of a command that goes on keeps the invariant when it loses no   *)
(* sign of failure, and each module that was read stays accounted for.     *)
LEMMA VerdictStep ==
    ASSUME TypeOK, VerdictInv, exit = "running", UNCHANGED <<command, exit>>,
           failed => failed', command # "many" => ~failed',
           errors # {} => errors' # {} \/ failed',
           failed_modules' # {} => failed_modules # {} \/ errors' # {} \/ failed',
           printed' # {} => printed # {} \/ failed',
           \A m \in Mods : text'[m] # Unread => text[m] # Unread \/ loads'[m] > 0,
           \A m \in Mods : loads[m] > 0 => loads'[m] > 0,
           \A m \in Mods : loads'[m] > 0 => loads[m] > 0 \/ Accounted(m)',
           \/ flow'.is = "raised" \/ errors' # {} \/ failed'
           \/ /\ module_cache \subseteq module_cache' /\ flow.is # "raised"
              /\ \A i \in DOMAIN stack : stack[i].via # "file" =>
                    \/ stack[i].mod \in module_cache'
                    \/ \E j \in DOMAIN stack' :
                          stack'[j].mod = stack[i].mod /\ stack'[j].via # "file"
    PROVE  VerdictInv'
<1>1. EndedIdle' BY DEF EndedIdle
<1>2. FailuresKnown' BY DEF VerdictInv, FailuresKnown
<1>3. AllAccounted'
  <2> SUFFICES ASSUME command # "module", NEW m \in Mods, loads'[m] > 0
               PROVE  Accounted(m)'
    BY DEF AllAccounted
  <2>1. CASE flow'.is = "raised" \/ errors' # {} \/ failed' BY <2>1 DEF Accounted
  <2>2. CASE ~Accounted(m) \/ Accounted(m)' \/ errors # {} \/ failed
    <3>1. loads[m] > 0 => Accounted(m) BY DEF VerdictInv, AllAccounted
    <3>2. ~Accounted(m) => Accounted(m)' BY <3>1
    <3>3. errors # {} \/ failed => Accounted(m)' BY DEF Accounted
    <3> QED BY <2>2, <3>2, <3>3
  <2>3. CASE /\ flow'.is # "raised" /\ errors' = {} /\ ~failed'
             /\ Accounted(m) /\ errors = {} /\ ~failed
    <3>1. /\ module_cache \subseteq module_cache' /\ flow.is # "raised"
          /\ \A i \in DOMAIN stack : stack[i].via # "file" =>
                \/ stack[i].mod \in module_cache'
                \/ \E j \in DOMAIN stack' :
                      stack'[j].mod = stack[i].mod /\ stack'[j].via # "file"
      BY <2>3
    <3>2. CASE m \in module_cache BY <3>1, <3>2 DEF Accounted
    <3>3. CASE \E i \in DOMAIN stack : stack[i].mod = m /\ stack[i].via # "file"
      BY <3>1, <3>3 DEF Accounted
    <3> QED BY <2>3, <3>1, <3>2, <3>3 DEF Accounted
  <2> QED BY <2>1, <2>2, <2>3
<1>4. ReadIsLoaded' BY DEF VerdictInv, ReadIsLoaded
<1>5. SuccessMeansChecked' BY DEF SuccessMeansChecked
<1> QED BY <1>1, <1>2, <1>3, <1>4, <1>5 DEF VerdictInv

(* An error on its way to a command that will see it. *)
LEMMA RaiseVerdict ==
    ASSUME TypeOK, VerdictInv, stack # <<>> \/ flow # Running, flow'.is = "raised",
           UNCHANGED <<cli, text, failed_modules, loads>>, errors \subseteq errors'
    PROVE  VerdictInv'
<1>1. exit = "running" BY AtWork
<1> QED BY <1>1, VerdictStep DEF cli, VerdictInv, FailuresKnown

(* The loader goes on, and a frame leaves the stack for the cache only.    *)
LEMMA GoOnVerdict ==
    ASSUME TypeOK, VerdictInv, stack # <<>>, flow.is # "raised",
           UNCHANGED <<cli, text, failed_modules, loads>>, errors \subseteq errors',
           module_cache \subseteq module_cache',
           \A i \in DOMAIN stack :
              \/ stack[i].mod \in module_cache'
              \/ /\ i \in DOMAIN stack'
                 /\ stack'[i].mod = stack[i].mod /\ stack'[i].via = stack[i].via
    PROVE  VerdictInv'
<1>1. exit = "running" BY AtWork
<1>2. \A i \in DOMAIN stack : stack[i].via # "file" =>
         \/ stack[i].mod \in module_cache'
         \/ \E j \in DOMAIN stack' :
               stack'[j].mod = stack[i].mod /\ stack'[j].via # "file"
  OBVIOUS
<1> QED BY <1>1, <1>2, VerdictStep DEF cli, VerdictInv, FailuresKnown

(* A frame that goes past a clause is the same frame. *)
LEMMA AdvanceVerdict ==
    ASSUME TypeOK, VerdictInv, stack # <<>>, flow.is # "raised", stack' = Advance(stack),
           UNCHANGED <<cli, text, module_cache, failed_modules, loads, errors>>
    PROVE  VerdictInv'
<1> DEFINE n == Len(stack)
<1>1. /\ n \in Nat \ {0} /\ Top \in Frame /\ Top = stack[n] /\ DOMAIN stack = 1 .. n
  <2>1. stack \in Seq(Frame) BY DEF TypeOK
  <2> QED BY <2>1, TopFrame DEF Top
<1>2. PICK f : f = [Top EXCEPT !.next = @ + 1] OBVIOUS
<1>3. f.mod = Top.mod /\ f.via = Top.via BY <1>1, <1>2 DEF Frame
<1>4. /\ stack' \in Seq(Frame) /\ Len(stack') = n
      /\ \A i \in 1 .. n - 1 : stack'[i] = stack[i]
      /\ stack'[n] = f
  BY <1>2, AdvanceFrame
<1> HIDE DEF n
<1>5. ASSUME NEW i \in 1 .. n
      PROVE  /\ i \in DOMAIN stack'
             /\ stack'[i].mod = stack[i].mod /\ stack'[i].via = stack[i].via
  <2>1. i = n \/ i \in 1 .. n - 1 BY <1>1
  <2> QED BY <1>1, <1>3, <1>4, <2>1
<1> QED BY <1>1, <1>5, GoOnVerdict

(* A module that is read has a frame, or an error is on its way. *)
LEMMA LoadVerdict ==
    ASSUME TypeOK, VerdictInv, exit = "running", flow.is # "raised",
           NEW m \in Mods, NEW via, via # "file", NEW asker,
           LoadModule(m, via, asker), UNCHANGED <<cli, failed_modules, module_cache, errors>>
    PROVE  VerdictInv'
<1>1. /\ stack \in Seq(Frame) /\ loads \in [Mods -> Nat] BY DEF TypeOK
<1>2. loads' = [loads EXCEPT ![m] = @ + 1] BY DEF LoadModule
<1>3. \A k \in Mods : text'[k] # Unread => k = m \/ text[k] # Unread BY LoadKeepsText
<1>4. loads'[m] > 0 /\ \A k \in Mods : k # m => loads'[k] = loads[k] BY <1>1, <1>2
<1>5. \/ flow'.is = "raised"
      \/ \E f : f.mod = m /\ f.via = via /\ stack' = Append(stack, f)
  <2>1. \/ \E e, c : flow' = Raised(e, c)
        \/ \E f : /\ f = [mod |-> m, via |-> via, prev |-> current_source,
                            phase |-> "imports", next |-> 1]
                   /\ stack' = Append(stack, f)
    BY Zenon DEF LoadModule
  <2>2. CASE \E e, c : flow' = Raised(e, c) BY <2>2 DEF Raised
  <2>3. ASSUME NEW f, stack' = Append(stack, f),
               f = [mod |-> m, via |-> via, prev |-> current_source,
                    phase |-> "imports", next |-> 1]
        PROVE  f.mod = m /\ f.via = via
    BY <2>3
  <2> QED BY <2>1, <2>2, <2>3
<1>6. \/ flow'.is = "raised"
      \/ /\ \E j \in DOMAIN stack' : stack'[j].mod = m /\ stack'[j].via # "file"
         /\ \A i \in DOMAIN stack : i \in DOMAIN stack' /\ stack'[i] = stack[i]
  <2> SUFFICES ASSUME NEW f, f.mod = m, f.via = via, stack' = Append(stack, f)
               PROVE  /\ \E j \in DOMAIN stack' :
                            stack'[j].mod = m /\ stack'[j].via # "file"
                      /\ \A i \in DOMAIN stack :
                            i \in DOMAIN stack' /\ stack'[i] = stack[i]
    BY <1>5
  <2>1. /\ Len(stack) + 1 \in DOMAIN stack' /\ stack'[Len(stack) + 1] = f
        /\ \A i \in DOMAIN stack : i \in DOMAIN stack' /\ stack'[i] = stack[i]
    BY <1>1
  <2> QED BY <2>1
<1>7. Accounted(m)' BY <1>6 DEF Accounted
<1>8. \/ flow'.is = "raised"
      \/ \A i \in DOMAIN stack : stack[i].via # "file" =>
            \E j \in DOMAIN stack' :
               stack'[j].mod = stack[i].mod /\ stack'[j].via # "file"
  BY <1>6
<1>9. /\ \A k \in Mods : text'[k] # Unread => text[k] # Unread \/ loads'[k] > 0
      /\ \A k \in Mods : loads[k] > 0 => loads'[k] > 0
      /\ \A k \in Mods : loads'[k] > 0 => loads[k] > 0 \/ Accounted(k)'
  BY <1>3, <1>4, <1>7
<1> QED BY <1>8, <1>9, VerdictStep DEF cli, VerdictInv, FailuresKnown

LEMMA ClauseVerdict ==
    ASSUME LoaderInv, VerdictInv, stack # <<>>, flow = Running, NEW via \in Nested,
           Clause \in Mods, LoadImported(Clause, via), UNCHANGED <<cli, verdicts, errors>>
    PROVE  VerdictInv'
<1>0. TypeOK BY DEF LoaderInv
<1>1. flow.is # "raised" /\ exit = "running" BY AtWork DEF Running
<1>2. CASE LoadModule(Clause, via, Top.mod)
  BY <1>0, <1>1, <1>2, LoadVerdict DEF Nested, verdicts
<1>3. CASE UNCHANGED <<text, stack, loads>>
  BY <1>0, <1>1, <1>3, GoOnVerdict DEF verdicts
<1> QED BY <1>2, <1>3 DEF LoadImported

LEMMA ImportVerdict ==
    ASSUME LoaderInv, VerdictInv, ResolveImports
    PROVE  VerdictInv'
<1>0. TypeOK /\ RaisedOK BY DEF LoaderInv
<1>1. CASE ImportUnresolved \/ ImportCircular
  BY <1>0, <1>1, RaiseVerdict
     DEF ImportUnresolved, ImportCircular, AtClause, InPhase, Raise, Raised, verdicts
<1>2. CASE ImportFailed
  <2>1. /\ stack # <<>> /\ flow.is # "raised" /\ stack' = Advance(stack)
        /\ UNCHANGED <<cli, text, module_cache, failed_modules, loads, errors>>
    BY <1>2 DEF ImportFailed, AtClause, InPhase, Running, verdicts
  <2> QED BY <1>0, <2>1, AdvanceVerdict
<1>3. CASE ImportLoad
  <2>1. stack # <<>> /\ flow = Running /\ Clause \in Mods /\ "import" \in Nested
    BY <1>3 DEF ImportLoad, AtClause, InPhase, Nested
  <2> QED BY <1>3, <2>1, ClauseVerdict DEF ImportLoad
<1>4. CASE BindNames
  <2>1. /\ stack # <<>> /\ flow.is # "raised"
        /\ UNCHANGED <<cli, text, module_cache, failed_modules, loads, errors>>
    BY <1>4 DEF BindNames, Returned, verdicts
  <2>2. CASE stack' = Advance(stack) BY <1>0, <2>1, <2>2, AdvanceVerdict
  <2>3. CASE Raise(ErrorHere("no export", Clause))
    BY <1>0, <2>1, <2>3, RaiseVerdict DEF Raise, Raised
  <2> QED BY <1>4, <2>2, <2>3 DEF BindNames
<1>5. CASE CatchImport
  <2>1. /\ flow # Running /\ UNCHANGED <<cli, text, module_cache, loads>>
        /\ errors' # {} /\ errors \subseteq errors'
    BY <1>5 DEF CatchImport, Running
  <2>2. exit = "running" BY <2>1, AtWork
  <2> QED BY <1>0, <2>1, <2>2, VerdictStep DEF cli, VerdictInv, FailuresKnown
<1> QED BY <1>1, <1>2, <1>3, <1>4, <1>5 DEF ResolveImports

LEMMA InferVerdict ==
    ASSUME LoaderInv, VerdictInv, InferOk
    PROVE  VerdictInv'
<1> DEFINE n == Len(stack)
<1>0. TypeOK BY DEF LoaderInv
<1>1. PICK f : f = [Top EXCEPT !.phase = "exports", !.next = 1] OBVIOUS
<1>2. /\ stack # <<>> /\ flow.is # "raised" /\ stack' = Append(Below, f)
      /\ UNCHANGED <<cli, text, failed_modules, module_cache, loads>>
      /\ errors \subseteq errors'
  BY <1>1 DEF InferOk, ImportsBound, InPhase, Running, verdicts
<1>3. /\ n \in Nat \ {0} /\ DOMAIN stack = 1 .. n /\ Top = stack[n] /\ Top \in Frame
      /\ Below \in Seq(Frame) /\ Len(Below) = n - 1
      /\ \A i \in 1 .. n - 1 : Below[i] = stack[i]
  <2>1. stack \in Seq(Frame) BY <1>0 DEF TypeOK
  <2> QED BY <1>0, <1>2, <2>1, TopFrame DEF Top
<1>4. f.mod = Top.mod /\ f.via = Top.via BY <1>1, <1>3 DEF Frame
<1> HIDE DEF n
<1>5. /\ DOMAIN stack' = 1 .. n /\ stack'[n] = f
      /\ \A i \in 1 .. n - 1 : stack'[i] = stack[i]
  BY <1>2, <1>3
<1>6. ASSUME NEW i \in 1 .. n
      PROVE  stack'[i].mod = stack[i].mod /\ stack'[i].via = stack[i].via
  <2>1. i = n \/ i \in 1 .. n - 1 BY <1>3
  <2> QED BY <1>3, <1>4, <1>5, <2>1
<1> QED BY <1>0, <1>2, <1>3, <1>5, <1>6, GoOnVerdict

LEMMA ReturnVerdict ==
    ASSUME LoaderInv, VerdictInv, ReturnModule
    PROVE  VerdictInv'
<1> DEFINE n == Len(stack)
<1>0. TypeOK BY DEF LoaderInv
<1>1. /\ stack # <<>> /\ flow.is # "raised" /\ stack' = Below
      /\ UNCHANGED <<cli, text, failed_modules, loads, errors>>
      /\ module_cache' = module_cache \cup {Top.mod}
  BY DEF ReturnModule, ExportsDone, InPhase, Running
<1>2. /\ n \in Nat \ {0} /\ DOMAIN stack = 1 .. n /\ Top = stack[n]
      /\ Below \in Seq(Frame) /\ Len(Below) = n - 1
      /\ \A i \in 1 .. n - 1 : Below[i] = stack[i]
  <2>1. stack \in Seq(Frame) BY <1>0 DEF TypeOK
  <2> QED BY <1>0, <1>1, <2>1, TopFrame DEF Top
<1> HIDE DEF n
<1>3. ASSUME NEW i \in 1 .. n
      PROVE  stack[i].mod \in module_cache' \/ (i \in DOMAIN Below /\ Below[i] = stack[i])
  <2>1. i = n \/ i \in 1 .. n - 1 BY <1>2
  <2>2. DOMAIN Below = 1 .. n - 1 BY <1>2
  <2> QED BY <1>1, <1>2, <2>1, <2>2
<1> QED BY <1>0, <1>1, <1>2, <1>3, GoOnVerdict

LEMMA ExportVerdict ==
    ASSUME LoaderInv, VerdictInv, ComputeExportTable
    PROVE  VerdictInv'
<1>0. TypeOK BY DEF LoaderInv
<1>1. CASE ReexportUnresolved \/ ReexportCircular
  BY <1>0, <1>1, RaiseVerdict
     DEF ReexportUnresolved, ReexportCircular, AtClause, InPhase, Raise, Raised, verdicts
<1>2. CASE ReexportLoad
  <2>1. stack # <<>> /\ flow = Running /\ Clause \in Mods /\ "reexport" \in Nested
    BY <1>2 DEF ReexportLoad, AtClause, InPhase, Nested
  <2> QED BY <1>2, <2>1, ClauseVerdict DEF ReexportLoad
<1>3. CASE PropagateReexport
  <2>1. flow # Running BY <1>3 DEF PropagateReexport, Running
  <2> QED BY <1>0, <1>3, <2>1, RaiseVerdict
          DEF PropagateReexport, Raise, Raised, verdicts
<1> QED BY <1>1, <1>2, <1>3 DEF ComputeExportTable

(* The end of an entry of check_many: its errors are shown and counted.    *)
LEMMA EndVerdict ==
    ASSUME TypeOK, VerdictInv, exit = "running", command = "many",
           NEW ds, EndEntry(ds), errors \subseteq ds,
           UNCHANGED <<command, exit, text, loads>>, module_cache \subseteq module_cache',
           failed_modules' = failed_modules \/ ds # {},
           ds # {} \/ /\ flow.is # "raised"
                      /\ \A i \in DOMAIN stack : stack[i].mod \in module_cache'
    PROVE  VerdictInv'
<1>1. /\ printed' = printed \cup Shown(ds) /\ errors' = {} /\ flow' = Running
      /\ failed' = (failed \/ ds # {})
  BY DEF EndEntry
<1>2. failed \in BOOLEAN BY DEF TypeOK
<1>3. CASE ds # {}
  <2>1. failed' BY <1>1, <1>3
  <2> QED BY <2>1, VerdictStep DEF VerdictInv, ReadIsLoaded, AllAccounted
<1>4. CASE ds = {}
  <2>1. Shown(ds) = {} BY <1>4 DEF Shown
  <2>2. errors = {} /\ printed' = printed /\ (failed' <=> failed)
        /\ failed_modules' = failed_modules
    BY <1>1, <1>2, <1>4, <2>1
  <2> QED BY <1>4, <2>2, VerdictStep
<1> QED BY <1>3, <1>4

LEMMA CommandVerdict ==
    ASSUME LoaderInv, VerdictInv, Commands
    PROVE  VerdictInv'
<1>0. TypeOK /\ IdleOK BY DEF LoaderInv
<1>1. CASE ForeignEntry
  <2>1. exit = "running" /\ command = "many" /\ failed'
        /\ UNCHANGED <<command, exit, printed, text, loads, failed_modules>>
    BY <1>1 DEF ForeignEntry, Idle, verdicts
  <2> QED BY <1>0, <2>1, VerdictStep
<1>2. CASE SkipEntry
  <2>1. stack = <<>> /\ flow.is # "raised" /\ exit = "running" /\ command = "many"
        /\ EndEntry(errors)
        /\ UNCHANGED <<command, exit, text, module_cache, failed_modules, loads>>
    BY <1>2 DEF SkipEntry, Idle, Running, verdicts
  <2>2. DOMAIN stack = {} BY <2>1
  <2> QED BY <1>0, <2>1, <2>2, EndVerdict
<1>3. CASE StartEntry \/ StartModule
  <2>1. PICK via \in {"many", "module"} :
           /\ Idle /\ UNCHANGED <<cli, verdicts, errors>>
           /\ LoadModule(Head(files), via, Head(files))
    BY <1>3 DEF StartEntry, StartModule
  <2>2. Head(files) \in Mods BY <1>3, OneFile DEF StartEntry, StartModule, LoaderInv
  <2>3. exit = "running" /\ flow.is # "raised" BY <2>1 DEF Idle, Running
  <2> QED BY <1>0, <2>1, <2>2, <2>3, LoadVerdict DEF verdicts
<1>4. CASE EntryOk
  <2>1. /\ stack # <<>> /\ flow = Running /\ Top.via = "many"
        /\ module_cache' = module_cache \cup {Top.mod} /\ EndEntry(errors)
        /\ UNCHANGED <<command, exit, text, failed_modules, loads>>
    BY <1>4 DEF EntryOk, ExportsDone, InPhase
  <2>2. "many" \notin Nested BY DEF Nested
  <2>3. Below = <<>> /\ command = "many" BY <2>1, <2>2, EndsFrame
  <2>4. Len(stack) = 1
    <3>1. Len(stack) \in Nat /\ Len(Below) = Len(stack) - 1 BY <1>0, <2>1, TopFrame
    <3> QED BY <2>3, <3>1
  <2>5. \A i \in DOMAIN stack : stack[i].mod \in module_cache'
    <3>1. stack \in Seq(Frame) BY <1>0 DEF TypeOK
    <3>2. DOMAIN stack = {1} BY <2>4, <3>1
    <3> QED BY <2>1, <2>4, <3>2 DEF Top
  <2>6. exit = "running" /\ flow.is # "raised" BY <2>1, AtWork DEF Running
  <2> QED BY <1>0, <2>1, <2>3, <2>5, <2>6, EndVerdict
<1>5. CASE EntryFails
  <2>1. PICK ds : /\ EndEntry(ds) /\ errors \subseteq ds /\ ds # {}
    BY <1>5 DEF EntryFails
  <2>2. /\ flow.is = "raised" /\ flow.call.via = "many" /\ flow # Running
        /\ UNCHANGED <<command, exit, text, module_cache, loads>>
    BY <1>5 DEF EntryFails, Running
  <2>3. "many" \notin Nested BY DEF Nested
  <2>4. command = "many" BY <2>2, <2>3, EndsRaised
  <2>5. exit = "running" BY <2>2, AtWork
  <2> QED BY <1>0, <2>1, <2>2, <2>4, <2>5, EndVerdict
<1>6. CASE AllChecked
  <2>1. /\ command = "many" /\ Idle /\ exit' \in {"success", "failure"}
        /\ exit' = "success" => ~failed
        /\ UNCHANGED <<command, failed, printed, text, stack, flow, verdicts, errors, loads>>
    BY <1>6 DEF AllChecked
  <2>2. stack = <<>> /\ flow = Running /\ exit = "running" /\ errors = {}
    BY <1>0, <2>1 DEF Idle, IdleOK
  <2>3. EndedIdle' /\ ReadIsLoaded'
    BY <2>1, <2>2 DEF EndedIdle, ReadIsLoaded, VerdictInv
  <2>4. FailuresKnown'
    BY <2>1, <2>2 DEF FailuresKnown, VerdictInv, verdicts
  <2>5. AllAccounted'
    BY <2>1, <2>2 DEF AllAccounted, Accounted, VerdictInv, verdicts
  <2>6. SuccessMeansChecked'
    <3> SUFFICES ASSUME exit' = "success"
                 PROVE  /\ failed_modules = {} /\ printed = {} /\ errors = {}
                        /\ \A m \in Mods : loads[m] > 0 => m \in module_cache
      BY <2>1 DEF SuccessMeansChecked, verdicts
    <3>1. ~failed /\ flow.is # "raised" /\ DOMAIN stack = {}
      BY <2>1, <2>2 DEF Running
    <3> QED BY <2>1, <2>2, <3>1 DEF VerdictInv, FailuresKnown, AllAccounted, Accounted
  <2> QED BY <2>3, <2>4, <2>5, <2>6 DEF VerdictInv
<1>7. CASE ModuleOk \/ ModuleFails
  <2>1. PICK code, ds : Exit(code, ds) /\ (ds # {} => code = "failure")
    BY <1>7 DEF ModuleOk, ModuleFails
  <2>2. "module" \notin Nested BY DEF Nested
  <2>3. command = "module"
    <3>1. CASE ModuleOk
      BY <2>2, <3>1, EndsFrame DEF ModuleOk, ExportsDone, InPhase
    <3>2. CASE ModuleFails BY <2>2, <3>2, EndsRaised DEF ModuleFails
    <3> QED BY <1>7, <3>1, <3>2
  <2>4. /\ exit' = code /\ printed' = Shown(ds) /\ stack' = <<>> /\ flow' = Running
        /\ UNCHANGED <<command, failed, text, verdicts, errors, loads>>
    BY <2>1 DEF Exit
  <2>5. printed' # {} => exit' = "failure" BY <2>1, <2>4 DEF Shown
  <2>6. EndedIdle' /\ FailuresKnown'
    BY <2>4, <2>5 DEF EndedIdle, FailuresKnown, VerdictInv, verdicts
  <2>7. AllAccounted' /\ SuccessMeansChecked'
    BY <2>3, <2>4 DEF AllAccounted, SuccessMeansChecked
  <2>8. ReadIsLoaded' BY <2>4 DEF ReadIsLoaded, VerdictInv
  <2> QED BY <2>6, <2>7, <2>8 DEF VerdictInv
<1>8. CASE StartFile
  <2>1. /\ command = "file" /\ exit = "running"
        /\ UNCHANGED <<cli, flow, verdicts, errors, loads>> /\ stack = <<>>
    BY <1>8 DEF StartFile, Idle
  <2>2. DOMAIN stack = {} BY <2>1
  <2>3. EndedIdle' /\ FailuresKnown'
    BY <2>1 DEF EndedIdle, FailuresKnown, VerdictInv, cli, verdicts
  <2>4. AllAccounted'
    BY <2>1, <2>2 DEF AllAccounted, Accounted, VerdictInv, cli, verdicts
  <2>5. ReadIsLoaded' /\ SuccessMeansChecked'
    BY <2>1 DEF ReadIsLoaded, SuccessMeansChecked, cli
  <2> QED BY <2>3, <2>4, <2>5 DEF VerdictInv
<1>9. CASE FileSyntaxError \/ FileFails
  <2>1. \E ds : Exit("failure", ds)
    BY <1>9 DEF FileSyntaxError, FileFails
  <2>2. "file" \notin Nested BY DEF Nested
  <2>3. command = "file"
    BY <1>9, <2>2, EndsRaised DEF FileSyntaxError, FileFails
  <2>4. /\ exit' = "failure" /\ stack' = <<>> /\ flow' = Running
        /\ UNCHANGED <<command, failed, text, verdicts, errors, loads>>
    BY <2>1 DEF Exit
  <2> QED BY <2>3, <2>4
          DEF VerdictInv, EndedIdle, FailuresKnown, AllAccounted, Accounted,
              ReadIsLoaded, SuccessMeansChecked, verdicts
<1>10. CASE FileInferred
  <2>1. PICK code, ds :
           /\ Exit(code, ds) /\ code \in {"success", "failure"}
           /\ code = "success" => ds = {} /\ errors = {}
    BY <1>10 DEF FileInferred
  <2>2. /\ exit' = code /\ printed' = Shown(ds) /\ stack' = <<>> /\ flow' = Running
        /\ UNCHANGED <<command, failed, text, verdicts, errors, loads>>
    BY <2>1 DEF Exit
  <2>3. stack # <<>> /\ flow = Running /\ Top.via = "file" /\ "file" \notin Nested
    BY <1>10 DEF FileInferred, ImportsBound, InPhase, Nested
  <2>4. command = "file" /\ Below = <<>> BY <2>3, EndsFrame
  <2>5. CASE code = "failure"
    BY <2>2, <2>4, <2>5
       DEF VerdictInv, EndedIdle, FailuresKnown, AllAccounted, Accounted,
           ReadIsLoaded, SuccessMeansChecked, verdicts
  <2>6. CASE code = "success"
    <3>1. errors = {} /\ printed' = {} BY <2>1, <2>2, <2>6 DEF Shown
    <3>2. ~failed /\ failed_modules = {}
      BY <2>4, <3>1 DEF VerdictInv, FailuresKnown
    <3>3. exit = "running" /\ flow.is # "raised" BY <2>3, AtWork DEF Running
    <3>4. \A i \in DOMAIN stack : stack[i].via = "file"
      <4>1. Len(stack) \in Nat /\ Len(Below) = Len(stack) - 1 BY <1>0, <2>3, TopFrame
      <4>2. Len(stack) = 1 BY <2>4, <4>1
      <4>3. stack \in Seq(Frame) BY <1>0 DEF TypeOK
      <4>4. DOMAIN stack = {1} BY <4>2, <4>3
      <4> QED BY <2>3, <4>2, <4>4 DEF Top
    <3>5. \A m \in Mods : loads[m] > 0 => m \in module_cache
      BY <2>4, <3>1, <3>2, <3>3, <3>4 DEF VerdictInv, AllAccounted, Accounted
    <3>6. EndedIdle' /\ ReadIsLoaded' BY <2>2, <2>4 DEF EndedIdle, ReadIsLoaded
    <3>7. FailuresKnown' BY <2>2, <3>1, <3>2 DEF FailuresKnown, verdicts
    <3>8. AllAccounted' BY <2>2, <3>5 DEF AllAccounted, Accounted, verdicts
    <3>9. SuccessMeansChecked'
      BY <2>2, <3>1, <3>2, <3>5 DEF SuccessMeansChecked, verdicts
    <3> QED BY <3>6, <3>7, <3>8, <3>9 DEF VerdictInv
  <2> QED BY <2>1, <2>5, <2>6
<1> QED BY <1>1, <1>2, <1>3, <1>4, <1>5, <1>6, <1>7, <1>8, <1>9, <1>10 DEF Commands

LEMMA VerdictInductive == LoaderInv /\ VerdictInv /\ [Next]_vars => VerdictInv'
<1> SUFFICES ASSUME LoaderInv, VerdictInv, [Next]_vars PROVE VerdictInv' OBVIOUS
<1>0. TypeOK BY DEF LoaderInv
<1>1. CASE ResolveImports BY <1>1, ImportVerdict
<1>2. CASE InferOk BY <1>2, InferVerdict
<1>3. CASE InferFails
  BY <1>0, <1>3, RaiseVerdict DEF InferFails, ImportsBound, InPhase, Raise, Raised, verdicts
<1>4. CASE ComputeExportTable BY <1>4, ExportVerdict
<1>5. CASE ReturnModule BY <1>5, ReturnVerdict
<1>6. CASE Commands BY <1>6, CommandVerdict
<1>7. CASE UNCHANGED vars
  BY <1>7 DEF vars, cli, verdicts, VerdictInv, EndedIdle, FailuresKnown, AllAccounted,
              Accounted, ReadIsLoaded, SuccessMeansChecked
<1> QED BY <1>1, <1>2, <1>3, <1>4, <1>5, <1>6, <1>7 DEF Next

LEMMA VerdictInit == Init => VerdictInv
<1> SUFFICES ASSUME Init PROVE VerdictInv OBVIOUS
<1>1. /\ exit = "running" /\ failed = FALSE /\ failed_modules = {} /\ printed = {}
      /\ \A m \in Mods : loads[m] = 0 /\ text[m] = Unread
  BY DEF Init
<1> QED BY <1>1 DEF VerdictInv, EndedIdle, FailuresKnown, AllAccounted, ReadIsLoaded,
                    SuccessMeansChecked

(* A run of `inty` that succeeds has checked every module it read, though  *)
(* resolve_imports goes on after a failed import and check_many after a    *)
(* failed file (main.rs).                                                  *)
THEOREM SuccessIsComplete == Spec => []SuccessMeansChecked
<1>1. Init => LoaderInv /\ VerdictInv BY InitOK, VerdictInit
<1>2. (LoaderInv /\ VerdictInv) /\ [Next]_vars => (LoaderInv /\ VerdictInv)'
  BY Inductive, VerdictInductive
<1>3. LoaderInv /\ VerdictInv => SuccessMeansChecked BY DEF VerdictInv
<1> QED BY <1>1, <1>2, <1>3, PTL DEF Spec

-----------------------------------------------------------------------------
(* No cycle is missed.                                                     *)

(* A module is cached only when its own load ends. *)
LoadingNotCached ==
    \A i \in DOMAIN stack : stack[i].via # "file" => stack[i].mod \notin module_cache

(* As long as nothing failed, no set of cached modules refers to itself    *)
(* throughout: one of them refers to none of the set.                      *)
Grounded ==
    failed_modules = {} =>
        \A C \in SUBSET module_cache :
            C # {} => \E m \in C : \A n \in C : ~Refers(m, n)

CycleInv == LoadingNotCached /\ Grounded

(* The texts of cached modules do not change. *)
LEMMA GroundedStays ==
    ASSUME TypeOK, CacheInv, Grounded, UNCHANGED module_cache,
           failed_modules \subseteq failed_modules',
           \A m \in Mods : text[m].is = "program" => text'[m] = text[m]
    PROVE  Grounded'
<1> SUFFICES ASSUME failed_modules' = {}, NEW C \in SUBSET module_cache, C # {}
             PROVE  \E m \in C : \A n \in C : ~Refers(m, n)'
  BY DEF Grounded
<1>1. PICK m \in C : \A n \in C : ~Refers(m, n) BY DEF Grounded
<1>2. m \in Mods /\ text[m].is = "program" BY DEF CacheInv, CachedRead, TypeOK
<1>3. text'[m] = text[m] BY <1>2
<1> QED BY <1>1, <1>3 DEF Refers

(* What a finished module refers to was cached before it was. *)
LEMMA GroundedGrows ==
    ASSUME LoaderInv, CacheInv, CycleInv, stack # <<>>, Finished(Top), Top.via # "file",
           module_cache' = module_cache \cup {Top.mod}, UNCHANGED <<text, failed_modules>>
    PROVE  Grounded'
<1>0. TypeOK BY DEF LoaderInv
<1> SUFFICES ASSUME failed_modules = {}, NEW C \in SUBSET module_cache', C # {}
             PROVE  \E m \in C : \A n \in C : ~Refers(m, n)'
  BY DEF Grounded
<1>1. \A m, n : Refers(m, n)' <=> Refers(m, n) BY DEF Refers
<1>2. PICK i \in DOMAIN stack : Top = stack[i] BY <1>0, TopFrame DEF Top
<1>3. Top.mod \notin module_cache BY <1>2 DEF CycleInv, LoadingNotCached
<1>4. \A n : Refers(Top.mod, n) => n \in module_cache
  <2>1. Done(Top) BY <1>2 DEF CacheInv, FramesDone
  <2>2. /\ Top.next \in Nat /\ Top.phase = "exports"
        /\ text[Top.mod].reexports \in Seq(Mods \cup {NoFile})
        /\ Top.next > Len(text[Top.mod].reexports)
    BY <1>0, <1>2, StackFrame DEF Finished
  <2>3. \A j \in DOMAIN text[Top.mod].reexports : j < Top.next BY <2>2
  <2> QED BY <2>1, <2>2, <2>3 DEF Refers, Done, ImportsDone, ReexportsDone, Known
<1>5. \A m \in module_cache : \A n : Refers(m, n) => n \in module_cache
  BY DEF CacheInv, CacheComplete, Refers
<1>6. CASE C = {Top.mod} BY <1>1, <1>3, <1>4, <1>6
<1>7. CASE C # {Top.mod}
  <2> DEFINE D == C \ {Top.mod}
  <2>1. D \in SUBSET module_cache /\ D # {} BY <1>7
  <2> HIDE DEF D
  <2>2. PICK m \in D : \A n \in D : ~Refers(m, n) BY <2>1 DEF CycleInv, Grounded
  <2>3. ~Refers(m, Top.mod) BY <1>3, <1>5, <2>1, <2>2
  <2> QED BY <1>1, <2>2, <2>3 DEF D
<1> QED BY <1>6, <1>7

(* No module is cached by the step, and no load begins. *)
LEMMA QuietCycle ==
    ASSUME TypeOK, CacheInv, CycleInv, UNCHANGED <<text, module_cache>>,
           failed_modules \subseteq failed_modules',
           \A i \in DOMAIN stack' :
              /\ i \in DOMAIN stack
              /\ stack'[i].mod = stack[i].mod /\ stack'[i].via = stack[i].via
    PROVE  CycleInv'
<1>1. Grounded' BY GroundedStays DEF CycleInv
<1>2. LoadingNotCached' BY DEF CycleInv, LoadingNotCached
<1> QED BY <1>1, <1>2 DEF CycleInv

(* The frames that are left, or go on, are those that were there. *)
LEMMA BelowAreFrames ==
    ASSUME TypeOK, stack # <<>>
    PROVE  \A i \in DOMAIN Below :
              i \in DOMAIN stack /\ i < Len(stack) /\ Below[i] = stack[i]
<1>1. stack \in Seq(Frame) BY DEF TypeOK
<1>2. /\ Len(stack) \in Nat \ {0} /\ Below \in Seq(Frame) /\ Len(Below) = Len(stack) - 1
      /\ \A i \in 1 .. Len(stack) - 1 : Below[i] = stack[i]
  BY TopFrame
<1>3. DOMAIN stack = 1 .. Len(stack) /\ DOMAIN Below = 1 .. Len(stack) - 1
  BY <1>1, <1>2
<1> QED BY <1>2, <1>3

LEMMA TopReplaced ==
    ASSUME TypeOK, stack # <<>>, NEW f, f.mod = Top.mod, f.via = Top.via,
           NEW s, s \in Seq(Frame), Len(s) = Len(stack), s[Len(stack)] = f,
           \A i \in 1 .. Len(stack) - 1 : s[i] = stack[i]
    PROVE  \A i \in DOMAIN s :
              /\ i \in DOMAIN stack
              /\ s[i].mod = stack[i].mod /\ s[i].via = stack[i].via
<1>1. stack \in Seq(Frame) BY DEF TypeOK
<1>2. Len(stack) \in Nat \ {0} BY TopFrame
<1> SUFFICES ASSUME NEW i \in 1 .. Len(stack)
             PROVE  s[i].mod = stack[i].mod /\ s[i].via = stack[i].via
  BY <1>1
<1>3. i = Len(stack) \/ i \in 1 .. Len(stack) - 1 BY <1>2
<1> QED BY <1>3 DEF Top

LEMMA RaiseCycle ==
    ASSUME LoaderInv, CacheInv, CycleInv, stack # <<>>, NEW e, Raise(e),
           UNCHANGED <<text, module_cache, failed_modules>>
    PROVE  CycleInv'
<1>1. TypeOK BY DEF LoaderInv
<1>2. stack' = Below BY DEF Raise
<1> QED BY <1>1, <1>2, BelowAreFrames, QuietCycle

LEMMA AdvanceCycle ==
    ASSUME LoaderInv, CacheInv, CycleInv, stack # <<>>, stack' = Advance(stack),
           UNCHANGED <<text, module_cache>>, failed_modules \subseteq failed_modules'
    PROVE  CycleInv'
<1>1. TypeOK BY DEF LoaderInv
<1>2. PICK f : f = [Top EXCEPT !.next = @ + 1] OBVIOUS
<1>3. f.mod = Top.mod /\ f.via = Top.via BY <1>1, <1>2, TopFrame DEF Frame
<1>4. /\ stack' \in Seq(Frame) /\ Len(stack') = Len(stack) /\ stack'[Len(stack)] = f
      /\ \A i \in 1 .. Len(stack) - 1 : stack'[i] = stack[i]
  BY <1>1, <1>2, AdvanceFrame
<1>5. \A i \in DOMAIN stack' :
         /\ i \in DOMAIN stack
         /\ stack'[i].mod = stack[i].mod /\ stack'[i].via = stack[i].via
  BY <1>1, <1>3, <1>4, TopReplaced
<1> QED BY <1>1, <1>5, QuietCycle

LEMMA InferCycle ==
    ASSUME LoaderInv, CacheInv, CycleInv, InferOk
    PROVE  CycleInv'
<1>1. TypeOK BY DEF LoaderInv
<1>2. PICK f : f = [Top EXCEPT !.phase = "exports", !.next = 1] OBVIOUS
<1>0. stack # <<>> BY DEF InferOk, ImportsBound, InPhase
<1>3. /\ stack' = Append(Below, f)
      /\ UNCHANGED <<text, module_cache, failed_modules>>
  BY <1>2 DEF InferOk, verdicts
<1>4. f \in Frame /\ f.mod = Top.mod /\ f.via = Top.via
  <2>1. Top \in Frame BY <1>0, <1>1, TopFrame
  <2>2. f \in Frame
    <3>1. PICK g : g = [Top EXCEPT !.phase = "exports"] OBVIOUS
    <3>2. g \in Frame BY <2>1, <3>1 DEF Frame
    <3>3. f = [g EXCEPT !.next = 1] BY <1>2, <3>1
    <3> QED BY <3>2, <3>3 DEF Frame
  <2>3. f.mod = Top.mod /\ f.via = Top.via BY <1>2, <2>1 DEF Frame
  <2> QED BY <2>2, <2>3
<1>5. /\ Len(stack) \in Nat \ {0} /\ Below \in Seq(Frame) /\ Len(Below) = Len(stack) - 1
      /\ \A i \in 1 .. Len(stack) - 1 : Below[i] = stack[i]
  BY <1>0, <1>1, TopFrame
<1>6. /\ stack' \in Seq(Frame) /\ Len(stack') = Len(stack) /\ stack'[Len(stack)] = f
      /\ \A i \in 1 .. Len(stack) - 1 : stack'[i] = stack[i]
  <2>1. stack' \in Seq(Frame) /\ Len(stack') = Len(Below) + 1 BY <1>3, <1>4, <1>5
  <2>2. Len(Below) + 1 = Len(stack) BY <1>5
  <2>3. /\ Append(Below, f)[Len(Below) + 1] = f
        /\ \A i \in 1 .. Len(Below) : Append(Below, f)[i] = Below[i]
    BY <1>5
  <2> QED BY <1>3, <1>5, <2>1, <2>2, <2>3
<1>7. \A i \in DOMAIN stack' :
         /\ i \in DOMAIN stack
         /\ stack'[i].mod = stack[i].mod /\ stack'[i].via = stack[i].via
  BY <1>0, <1>1, <1>4, <1>6, TopReplaced
<1> QED BY <1>1, <1>3, <1>7, QuietCycle

(* A load begins for a module that is not cached. *)
LEMMA LoadCycle ==
    ASSUME LoaderInv, CacheInv, CycleInv, NEW m \in Mods, m \notin module_cache,
           NEW via, NEW asker, LoadModule(m, via, asker),
           UNCHANGED <<module_cache, failed_modules>>
    PROVE  CycleInv'
<1>0. TypeOK BY DEF LoaderInv
<1>1. stack \in Seq(Frame) BY <1>0 DEF TypeOK
<1>2. Grounded' BY <1>0, LoadKeepsText, GroundedStays DEF CycleInv
<1>3. \/ stack' = stack
      \/ \E f : /\ f = [mod |-> m, via |-> via, prev |-> current_source,
                        phase |-> "imports", next |-> 1]
                /\ stack' = Append(stack, f)
  BY Zenon DEF LoadModule
<1>4. CASE stack' = stack BY <1>2, <1>4 DEF CycleInv, LoadingNotCached
<1>5. ASSUME NEW f, stack' = Append(stack, f),
             f = [mod |-> m, via |-> via, prev |-> current_source,
                  phase |-> "imports", next |-> 1]
      PROVE  CycleInv'
  <2>1. f.mod = m BY <1>5
  <2>2. \A i \in DOMAIN stack' :
           stack'[i] = f \/ (i \in DOMAIN stack /\ stack'[i] = stack[i])
    BY <1>1, <1>5
  <2> QED BY <1>2, <2>1, <2>2 DEF CycleInv, LoadingNotCached
<1> QED BY <1>3, <1>4, <1>5

LEMMA ClauseCycle ==
    ASSUME LoaderInv, CacheInv, CycleInv, stack # <<>>, NEW via,
           Clause \in Mods, LoadImported(Clause, via), UNCHANGED verdicts
    PROVE  CycleInv'
<1>1. CASE Clause \notin module_cache /\ LoadModule(Clause, via, Top.mod)
  BY <1>1, LoadCycle DEF verdicts
<1>2. CASE UNCHANGED <<text, stack>>
  BY <1>2, QuietCycle DEF LoaderInv, verdicts
<1> QED BY <1>1, <1>2 DEF LoadImported

(* A module is cached when its frame leaves the stack. *)
LEMMA CachedCycle ==
    ASSUME LoaderInv, CacheInv, CycleInv, stack # <<>>, Finished(Top), Top.via # "file",
           module_cache' = module_cache \cup {Top.mod}, stack' = Below,
           UNCHANGED <<text, failed_modules>>
    PROVE  CycleInv'
<1>0. TypeOK /\ NoReentry BY DEF LoaderInv
<1>1. Grounded' BY GroundedGrows
<1>2. LoadingNotCached'
  <2> SUFFICES ASSUME NEW i \in DOMAIN Below, Below[i].via # "file"
               PROVE  Below[i].mod \notin module_cache \cup {Top.mod}
    BY DEF LoadingNotCached
  <2>1. i \in DOMAIN stack /\ i < Len(stack) /\ Below[i] = stack[i]
    BY <1>0, BelowAreFrames
  <2>2. Len(stack) \in DOMAIN stack /\ Top = stack[Len(stack)] BY <1>0, TopFrame DEF Top
  <2>3. i # Len(stack)
    <3>1. i \in Nat /\ Len(stack) \in Nat BY <1>0, <2>1 DEF TypeOK
    <3> QED BY <2>1, <3>1
  <2>4. Below[i].mod # Top.mod BY <1>0, <2>1, <2>2, <2>3 DEF NoReentry
  <2> QED BY <2>1, <2>4 DEF CycleInv, LoadingNotCached
<1> QED BY <1>1, <1>2 DEF CycleInv

LEMMA ResolveCycle ==
    ASSUME LoaderInv, CacheInv, CycleInv, ResolveImports
    PROVE  CycleInv'
<1>0. TypeOK /\ RaisedOK BY DEF LoaderInv
<1>1. CASE ImportUnresolved \/ ImportCircular
  BY <1>1, RaiseCycle
     DEF ImportUnresolved, ImportCircular, AtClause, InPhase, verdicts
<1>2. CASE ImportFailed
  BY <1>2, AdvanceCycle DEF ImportFailed, AtClause, InPhase, verdicts
<1>3. CASE ImportLoad
  BY <1>3, ClauseCycle DEF ImportLoad, AtClause, InPhase
<1>4. CASE BindNames
  <2>1. stack # <<>> /\ UNCHANGED <<text, module_cache, failed_modules>>
    BY <1>4 DEF BindNames, verdicts
  <2>2. CASE stack' = Advance(stack) BY <2>1, <2>2, AdvanceCycle
  <2>3. CASE Raise(ErrorHere("no export", Clause)) BY <2>1, <2>3, RaiseCycle
  <2> QED BY <1>4, <2>2, <2>3 DEF BindNames
<1>5. CASE CatchImport
  <2>1. /\ stack' = Advance(stack) /\ UNCHANGED <<text, module_cache>>
        /\ failed_modules \subseteq failed_modules'
    BY <1>5 DEF CatchImport
  <2>2. stack # <<>> BY <1>0, <1>5 DEF CatchImport, RaisedOK, Nested
  <2> QED BY <2>1, <2>2, AdvanceCycle
<1> QED BY <1>1, <1>2, <1>3, <1>4, <1>5 DEF ResolveImports

LEMMA ExportCycle ==
    ASSUME LoaderInv, CacheInv, CycleInv, ComputeExportTable
    PROVE  CycleInv'
<1>0. RaisedOK BY DEF LoaderInv
<1>1. CASE ReexportUnresolved \/ ReexportCircular
  BY <1>1, RaiseCycle
     DEF ReexportUnresolved, ReexportCircular, AtClause, InPhase, verdicts
<1>2. CASE ReexportLoad
  BY <1>2, ClauseCycle DEF ReexportLoad, AtClause, InPhase
<1>3. CASE PropagateReexport
  <2>1. stack # <<>> BY <1>0, <1>3 DEF PropagateReexport, RaisedOK, Nested
  <2> QED BY <1>3, <2>1, RaiseCycle DEF PropagateReexport, verdicts
<1> QED BY <1>1, <1>2, <1>3 DEF ComputeExportTable

LEMMA CommandCycle ==
    ASSUME LoaderInv, CacheInv, CycleInv, Commands
    PROVE  CycleInv'
<1>0. TypeOK /\ IdleOK BY DEF LoaderInv
<1>1. CASE ForeignEntry \/ AllChecked \/ SkipEntry
  <2>1. UNCHANGED <<text, stack, module_cache, failed_modules>>
    BY <1>1 DEF ForeignEntry, AllChecked, SkipEntry, verdicts
  <2> QED BY <1>0, <2>1, QuietCycle
<1>2. CASE StartEntry
  BY <1>2, LoadCycle DEF StartEntry, verdicts
<1>3. CASE StartModule
  <2>1. /\ command = "module" /\ Idle /\ UNCHANGED verdicts
        /\ LoadModule(Head(files), "module", Head(files))
    BY <1>3 DEF StartModule
  <2>2. module_cache = {} BY <1>0, <2>1 DEF IdleOK
  <2>3. Head(files) \in Mods BY <2>1, OneFile DEF LoaderInv
  <2> QED BY <2>1, <2>2, <2>3, LoadCycle DEF verdicts
<1>4. CASE EntryOk
  <2>1. /\ stack # <<>> /\ Top.via # "file" /\ stack' = Below
        /\ module_cache' = module_cache \cup {Top.mod}
        /\ UNCHANGED <<text, failed_modules>>
    BY <1>4 DEF EntryOk, ExportsDone, InPhase
  <2>2. Finished(Top) BY <1>4 DEF EntryOk, ExportsDone, InPhase, Finished, Clauses
  <2> QED BY <2>1, <2>2, CachedCycle
<1>5. CASE EntryFails
  <2>1. /\ UNCHANGED <<text, stack, module_cache>>
        /\ failed_modules \subseteq failed_modules'
    BY <1>5 DEF EntryFails
  <2> QED BY <1>0, <2>1, QuietCycle
<1>6. CASE ModuleOk \/ ModuleFails \/ FileSyntaxError \/ FileFails \/ FileInferred
  <2>1. \E code, ds : Exit(code, ds)
    BY <1>6 DEF ModuleOk, ModuleFails, FileSyntaxError, FileFails, FileInferred
  <2>2. stack' = <<>> /\ UNCHANGED <<text, module_cache, failed_modules>>
    BY <2>1 DEF Exit, verdicts
  <2>3. DOMAIN stack' = {} BY <2>2
  <2> QED BY <1>0, <2>2, <2>3, QuietCycle
<1>7. CASE StartFile
  <2>1. module_cache = {} BY <1>0, <1>7 DEF StartFile, IdleOK
  <2>2. module_cache' = {} BY <1>7, <2>1 DEF StartFile, verdicts
  <2> QED BY <2>2 DEF CycleInv, LoadingNotCached, Grounded
<1> QED BY <1>1, <1>2, <1>3, <1>4, <1>5, <1>6, <1>7 DEF Commands

LEMMA CycleInductive == LoaderInv /\ CacheInv /\ CycleInv /\ [Next]_vars => CycleInv'
<1> SUFFICES ASSUME LoaderInv, CacheInv, CycleInv, [Next]_vars PROVE CycleInv' OBVIOUS
<1>0. TypeOK BY DEF LoaderInv
<1>1. CASE ResolveImports BY <1>1, ResolveCycle
<1>2. CASE InferOk BY <1>2, InferCycle
<1>3. CASE InferFails
  BY <1>3, RaiseCycle DEF InferFails, ImportsBound, InPhase, verdicts
<1>4. CASE ComputeExportTable BY <1>4, ExportCycle
<1>5. CASE ReturnModule
  <2>1. /\ stack # <<>> /\ Top.via # "file" /\ stack' = Below
        /\ module_cache' = module_cache \cup {Top.mod}
        /\ UNCHANGED <<text, failed_modules>>
    BY <1>5 DEF ReturnModule, ExportsDone, InPhase
  <2>2. Finished(Top) BY <1>5 DEF ReturnModule, ExportsDone, InPhase, Finished, Clauses
  <2> QED BY <2>1, <2>2, CachedCycle
<1>6. CASE Commands BY <1>6, CommandCycle
<1>7. CASE UNCHANGED vars
  <2>1. UNCHANGED <<text, stack, module_cache, failed_modules>>
    BY <1>7 DEF vars, verdicts
  <2> QED BY <1>0, <2>1, QuietCycle
<1> QED BY <1>1, <1>2, <1>3, <1>4, <1>5, <1>6, <1>7 DEF Next

LEMMA CycleInit == Init => CycleInv
<1> SUFFICES ASSUME Init PROVE CycleInv OBVIOUS
<1>1. DOMAIN stack = {} /\ module_cache = {} BY DEF Init
<1> QED BY <1>1 DEF CycleInv, LoadingNotCached, Grounded

(* After a success the cache is grounded and holds whatever was read: the  *)
(* modules of a cycle would refer to one another throughout.               *)
LEMMA NoCycleLeft ==
    ASSUME LoaderInv, VerdictInv, CycleInv
    PROVE  CyclesAreFound
<1> SUFFICES ASSUME exit = "success", command = "many", NEW m \in Mods, Reaches(m, m)
             PROVE  FALSE
  BY DEF CyclesAreFound
<1>0. PICK k \in 1 .. Cardinality(Mods) : \E p \in [0 .. k -> Mods] :
         p[0] = m /\ p[k] = m /\ \A i \in 1 .. k : Refers(p[i - 1], p[i])
  BY DEF Reaches
<1>1. PICK p \in [0 .. k -> Mods] :
         p[0] = m /\ p[k] = m /\ \A i \in 1 .. k : Refers(p[i - 1], p[i])
  BY <1>0
<1>2. k \in Nat \ {0} OBVIOUS
<1>3. /\ failed_modules = {}
      /\ \A n \in Mods : text[n] # Unread => n \in module_cache
  BY DEF VerdictInv, SuccessMeansChecked, ReadIsLoaded
<1>4. ASSUME NEW i \in 1 .. k
      PROVE  p[i] \in module_cache /\ \E j \in 1 .. k : Refers(p[i], p[j])
  <2>1. PICK j \in 1 .. k : Refers(p[i], p[j])
    <3>1. CASE i = k
      <4>1. 1 \in 1 .. k /\ 1 - 1 = 0 BY <1>2
      <4> QED BY <1>1, <3>1, <4>1
    <3>2. CASE i # k
      <4>1. i + 1 \in 1 .. k /\ (i + 1) - 1 = i BY <1>2, <3>2
      <4> QED BY <1>1, <4>1
    <3> QED BY <3>1, <3>2
  <2>2. p[i] \in Mods BY <1>1, <1>2
  <2>3. text[p[i]] # Unread
    <3>1. Unread.imports = <<>> /\ Unread.reexports = <<>> BY DEF Unread, Bad
    <3>2. \A x : x \notin DOMAIN <<>> OBVIOUS
    <3> QED BY <2>1, <3>1, <3>2 DEF Refers
  <2> QED BY <1>3, <2>1, <2>2, <2>3
<1> DEFINE C == {p[i] : i \in 1 .. k}
<1>5. C \in SUBSET module_cache /\ C # {}
  <2>1. 1 \in 1 .. k BY <1>2
  <2> QED BY <1>4, <2>1
<1>6. \A n \in C : \E q \in C : Refers(n, q) BY <1>4
<1> HIDE DEF C
<1> QED BY <1>3, <1>5, <1>6 DEF CycleInv, Grounded

(* A successful run over several files has seen no import cycle: load_     *)
(* module's visiting set catches each one, whichever of its modules comes  *)
(* first, and module_cache never hides one.                                *)
THEOREM CyclesFound == Spec => []CyclesAreFound
<1> DEFINE Inv == LoaderInv /\ CacheInv /\ VerdictInv /\ CycleInv
<1>1. Init => Inv BY InitOK, CacheInit, VerdictInit, CycleInit
<1>2. Inv /\ [Next]_vars => Inv'
  BY Inductive, CacheInductive, VerdictInductive, CycleInductive
<1>3. Inv => CyclesAreFound BY NoCycleLeft
<1> QED BY <1>1, <1>2, <1>3, PTL DEF Spec
=============================================================================
