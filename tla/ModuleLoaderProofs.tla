------------------------ MODULE ModuleLoaderProofs ------------------------
(***************************************************************************)
(* Proofs about the module loader, for every set of modules and every      *)
(* import graph: its types, that cycle detection keeps the recursion       *)
(* finite, and that every error is attributed to the file it is in.        *)
(***************************************************************************)
EXTENDS ModuleLoader, SequenceTheorems, TLAPS

-----------------------------------------------------------------------------
(* The inductive invariant.                                                *)

(* What current_source is while a frame is the innermost one. *)
Src(f) == IF f.via = "file" THEN NoSource ELSE f.mod

Where(src) == IF src = NoSource THEN Head(files) ELSE src

Nested == {"import", "reexport"}

(* The frames: only the outermost is a command's; each but run_inference's *)
(* file is in visiting, and remembers what its caller was attributed to.   *)
FramesOK ==
    \A i \in DOMAIN stack :
        /\ stack[i].via \in Nested <=> i > 1
        /\ stack[i].via # "file" => stack[i].mod \in visiting
        /\ stack[i].via = "file" => stack[i].mod = Head(files)
        /\ stack[i].via \in Nested \cup {command}
        /\ i > 1 => stack[i].prev = Src(stack[i - 1])

(* Between the commands' entries nothing is attributed or recorded; the    *)
(* commands with one file are idle only before they start.                 *)
IdleOK ==
    Idle => /\ errors = {} /\ current_source = NoSource
            /\ command # "many" => module_cache = {} /\ failed_modules = {}

(* While a module is loaded, the command is at one of its files. *)
FileOK == stack # <<>> \/ flow # Running => files # <<>> /\ Head(files) \in Mods

FlowOK ==
    /\ flow = Returned => stack # <<>>
    /\ flow.is # "raised" /\ stack # <<>> => current_source = Src(Top)

(* An error that propagates: it is in the current source; its module has   *)
(* left the stack; its caller, if it is not the command, is on top.        *)
RaisedOK ==
    flow.is = "raised" =>
        /\ flow.error.at = Where(current_source)
        /\ flow.call.via \in Nested <=> stack # <<>>
        /\ stack # <<>> => flow.call.prev = Src(Top)
        /\ \A i \in DOMAIN stack :
              stack[i].mod = flow.call.mod => stack[i].via = "file"
        /\ flow.call.via \in Nested \cup {command}

(* The commands with one file keep it. *)
OneFileOK == command # "many" => Len(files) = 1 /\ files[1] \in Mods

LoaderInv ==
    /\ TypeOK /\ FramesOK /\ IdleOK /\ FileOK /\ FlowOK /\ RaisedOK /\ OneFileOK
    /\ NoReentry /\ AttributionRight

-----------------------------------------------------------------------------
(* The stack: what the innermost frame and the others are.                 *)

LEMMA TopFrame ==
    ASSUME TypeOK, stack # <<>>
    PROVE  /\ Len(stack) \in Nat \ {0} /\ Len(stack) \in DOMAIN stack
           /\ Top \in Frame
           /\ text[Top.mod].is = "program"
           /\ Below \in Seq(Frame) /\ Len(Below) = Len(stack) - 1
           /\ \A i \in 1 .. Len(stack) - 1 : Below[i] = stack[i]
<1>1. stack \in Seq(Frame) BY DEF TypeOK
<1>2. Len(stack) \in Nat \ {0} /\ Len(stack) \in DOMAIN stack BY <1>1
<1>3. Top \in Frame BY <1>1, <1>2 DEF Top
<1>4. text[Top.mod].is = "program" BY <1>2 DEF TypeOK, Top
<1>5. /\ Below \in Seq(Frame) /\ Len(Below) = Len(stack) - 1
      /\ \A i \in 1 .. Len(stack) - 1 : Below[i] = stack[i]
  <2> DEFINE n == Len(stack) - 1
  <2>1. 1 \in Int /\ n \in Nat BY <1>2
  <2>2. \A i \in 1 .. n : stack[i] \in Frame BY <1>1, <1>2
  <2>3. /\ SubSeq(stack, 1, n) \in Seq(Frame)
        /\ Len(SubSeq(stack, 1, n)) = IF 1 <= n THEN n - 1 + 1 ELSE 0
        /\ \A i \in 1 .. n - 1 + 1 : SubSeq(stack, 1, n)[i] = stack[1 + i - 1]
    <3> HIDE DEF n
    <3> QED BY <2>1, <2>2, SubSeqProperties
  <2>4. (IF 1 <= n THEN n - 1 + 1 ELSE 0) = n /\ n - 1 + 1 = n
    <3> HIDE DEF n
    <3>1. CASE 1 <= n BY <2>1, <3>1
    <3>2. CASE ~(1 <= n)
      <4>1. n = 0 BY <2>1, <3>2
      <4> QED BY <4>1
    <3> QED BY <3>1, <3>2
  <2>5. \A i \in 1 .. n : 1 + i - 1 = i OBVIOUS
  <2>6. Below = SubSeq(stack, 1, n) BY DEF Below
  <2>7. Below \in Seq(Frame) /\ Len(Below) = n BY <2>3, <2>4, <2>6, Zenon
  <2>8. \A i \in 1 .. n : Below[i] = stack[i]
    <3> HIDE DEF n
    <3> QED BY <2>3, <2>4, <2>5, <2>6, Zenon
  <2> QED BY <2>7, <2>8
<1> QED BY <1>2, <1>3, <1>4, <1>5

LEMMA AdvanceFrame ==
    ASSUME TypeOK, stack # <<>>
    PROVE  /\ Advance(stack) \in Seq(Frame)
           /\ Len(Advance(stack)) = Len(stack)
           /\ \A i \in 1 .. Len(stack) - 1 : Advance(stack)[i] = stack[i]
           /\ Advance(stack)[Len(stack)] = [Top EXCEPT !.next = @ + 1]
<1>1. stack \in Seq(Frame) BY DEF TypeOK
<1>2. Top \in Frame /\ Len(stack) \in Nat \ {0} BY TopFrame
<1>3. [Top EXCEPT !.next = @ + 1] \in Frame BY <1>2 DEF Frame
<1> QED BY <1>1, <1>2, <1>3 DEF Advance, Top

LEMMA SeqsUpToAreSeqs ==
    ASSUME NEW S, NEW n \in Nat, NEW s \in SeqsUpTo(S, n)
    PROVE  s \in Seq(S)
<1>1. PICK k \in 0 .. n : s \in [1 .. k -> S] BY DEF SeqsUpTo
<1> QED BY <1>1

(* Programs are sequences of clauses. *)
LEMMA ProgramClauses ==
    ASSUME NEW p \in Texts
    PROVE  /\ p.imports \in Seq(Mods \cup {NoFile})
           /\ p.reexports \in Seq(Mods \cup {NoFile})
           /\ p.is \in {"program", "unreadable", "syntax error"}
<1>1. CASE p \in Programs
  <2>1. /\ p.imports \in SeqsUpTo(Mods \cup {NoFile}, MaxImports)
        /\ p.reexports \in SeqsUpTo(Mods \cup {NoFile}, MaxReexports)
        /\ p.is = "program"
    BY <1>1 DEF Programs
  <2>2. p.imports \in Seq(Mods \cup {NoFile})
    BY <2>1, SeqsUpToAreSeqs, LoaderAssumption
  <2>3. p.reexports \in Seq(Mods \cup {NoFile})
    BY <2>1, SeqsUpToAreSeqs, LoaderAssumption
  <2> QED BY <2>1, <2>2, <2>3
<1>2. CASE p \in {Bad("unreadable"), Bad("syntax error")}
  <2>1. <<>> \in Seq(Mods \cup {NoFile}) OBVIOUS
  <2>2. PICK w \in {"unreadable", "syntax error"} :
           p = [is |-> w, imports |-> <<>>, reexports |-> <<>>]
    BY <1>2 DEF Bad
  <2>3. p.is = w /\ p.imports = <<>> /\ p.reexports = <<>> BY <2>2
  <2> QED BY <2>1, <2>2, <2>3, Zenon
<1> QED BY <1>1, <1>2 DEF Texts

LEMMA ClauseType ==
    ASSUME TypeOK, stack # <<>>
    PROVE  /\ Clauses(Top) \in Seq(Mods \cup {NoFile})
           /\ Top.next <= Len(Clauses(Top)) => Clause \in Mods \cup {NoFile}
<1>1. Top \in Frame /\ text[Top.mod].is = "program" BY TopFrame
<1>2. text[Top.mod] \in Texts BY <1>1 DEF TypeOK, Unread, Bad, Frame
<1>3. Clauses(Top) \in Seq(Mods \cup {NoFile})
  BY <1>2, ProgramClauses DEF Clauses
<1> QED BY <1>1, <1>3 DEF Clause, Frame

(* Recorded errors are in the file they are attributed to. *)
Attributed(es) == \A l \in es : l.error.at = Where(l.source)

-----------------------------------------------------------------------------
(* Steps that raise: the innermost call ends, everything else stays.       *)

LEMMA RaiseStep ==
    ASSUME LoaderInv, stack # <<>>,
           NEW e \in Error, e.at = Where(current_source), Raise(e),
           UNCHANGED <<cli, text, visiting, verdicts, current_source, loads>>,
           errors' \subseteq Located, Attributed(errors')
    PROVE  LoaderInv'
<1> USE DEF cli, verdicts
<1> DEFINE n == Len(stack) - 1
<1>1. /\ n \in Nat /\ Len(stack) = n + 1 /\ Top \in Frame /\ Top = stack[n + 1]
      /\ stack' \in Seq(Frame) /\ Len(stack') = n
      /\ DOMAIN stack = 1 .. n + 1 /\ DOMAIN stack' = 1 .. n
      /\ \A i \in 1 .. n : stack'[i] = stack[i]
  <2>1. stack \in Seq(Frame) /\ stack' = Below BY DEF LoaderInv, TypeOK, Raise
  <2> QED BY <2>1, TopFrame DEF LoaderInv, Top
<1>2. /\ TypeOK /\ FramesOK /\ FileOK /\ FlowOK /\ RaisedOK /\ OneFileOK
      /\ NoReentry /\ AttributionRight
  BY DEF LoaderInv
<1>3. /\ flow' = [is |-> "raised", error |-> e, call |-> CallOf(Top)]
      /\ flow'.is = "raised" /\ flow'.error = e /\ flow'.call = CallOf(Top)
      /\ CallOf(Top).mod = Top.mod /\ CallOf(Top).via = Top.via
      /\ CallOf(Top).prev = Top.prev
  BY DEF Raise, Raised, CallOf
<1>4. CallOf(Top) \in Call /\ flow' \in [is: {"raised"}, error: Error, call: Call]
  BY <1>1, <1>3 DEF CallOf, Call, Frame
<1>5. flow' # Running /\ flow' # Returned BY <1>3 DEF Running, Returned
<1> HIDE DEF n
<1>6. TypeOK'
  <2>1. (\A i \in DOMAIN stack :
          /\ text[stack[i].mod].is = "program"
          /\ stack[i].next <= Len(Clauses(stack[i]))
          /\ stack[i].next <= Len(Clauses(stack[i])) + 1)'
    <3> SUFFICES ASSUME NEW i \in 1 .. n
                 PROVE  /\ text[stack[i].mod].is = "program"
                        /\ stack[i].next <= Len(Clauses(stack[i]))
                        /\ stack[i].next <= Len(Clauses(stack[i])) + 1
      BY <1>1 DEF Clauses
    <3>1. i \in DOMAIN stack /\ i < Len(stack) BY <1>1
    <3>2. stack[i] \in Frame BY <1>1, <3>1, <1>2 DEF TypeOK
    <3> QED BY <1>2, <3>1 DEF TypeOK
  <2> QED BY <1>1, <1>2, <1>4, <2>1 DEF TypeOK
<1>7. FramesOK'
  <2> SUFFICES ASSUME NEW i \in 1 .. n
               PROVE  /\ stack[i].via \in Nested <=> i > 1
                      /\ stack[i].via # "file" => stack[i].mod \in visiting
                      /\ stack[i].via = "file" => stack[i].mod = Head(files)
                      /\ stack[i].via \in Nested \cup {command}
                      /\ i > 1 => stack[i].prev = Src(stack[i - 1])
    BY <1>1 DEF FramesOK, Src
  <2>1. i \in DOMAIN stack BY <1>1
  <2> QED BY <1>2, <2>1 DEF FramesOK
<1>8. FileOK' BY <1>2 DEF FileOK
<1>9. FlowOK' BY <1>3, <1>5 DEF FlowOK
<1>10. RaisedOK'
  <2>1. Top.via \in Nested <=> n # 0 BY <1>1, <1>2 DEF FramesOK
  <2>2. n # 0 => Top.prev = Src(stack[n]) BY <1>1, <1>2 DEF FramesOK
  <2>3. stack' # <<>> <=> n # 0 BY <1>1
  <2>4. stack' # <<>> => Top' = stack[n] BY <1>1, <2>3 DEF Top
  <2>5. Top.via \in Nested \cup {command} BY <1>1, <1>2 DEF FramesOK
  <2>6. ASSUME NEW i \in 1 .. n, stack[i].mod = Top.mod
        PROVE  stack[i].via = "file"
    <3>1. i # n + 1 /\ i \in DOMAIN stack /\ n + 1 \in DOMAIN stack BY <1>1
    <3>2. "file" \in {stack[i].via, Top.via} BY <1>1, <1>2, <2>6, <3>1 DEF NoReentry
    <3>3. Top.via # "file" BY <1>1, <2>1 DEF Nested
    <3> QED BY <3>2, <3>3
  <2>7. e.at = Where(current_source)' BY DEF Where
  <2> QED BY <1>1, <1>3, <2>1, <2>2, <2>3, <2>4, <2>5, <2>6, <2>7 DEF RaisedOK, Src
<1>11. OneFileOK' BY <1>2 DEF OneFileOK
<1>12. NoReentry' BY <1>1, <1>2 DEF NoReentry
<1>13. AttributionRight' BY <1>2 DEF AttributionRight, Attributed, Where
<1>14. IdleOK' BY <1>5 DEF IdleOK, Idle
<1> QED BY <1>6, <1>7, <1>8, <1>9, <1>10, <1>11, <1>12, <1>13, <1>14 DEF LoaderInv

-----------------------------------------------------------------------------
(* Steps after which the innermost call goes on, at another clause.        *)

LEMMA GoOnStep ==
    ASSUME LoaderInv, stack # <<>>, NEW f \in Frame,
           f.mod = Top.mod, f.via = Top.via, f.prev = Top.prev,
           f.next <= Len(Clauses(f)) + 1,
           stack' \in Seq(Frame), Len(stack') = Len(stack),
           \A i \in 1 .. Len(stack) - 1 : stack'[i] = stack[i],
           stack'[Len(stack)] = f, flow' = Running,
           UNCHANGED <<cli, text, loads>>,
           module_cache' \subseteq Mods, failed_modules' \subseteq Mods,
           visiting' \subseteq Mods,
           \A i \in DOMAIN stack :
              stack[i].via # "file" => stack[i].mod \in visiting',
           current_source' = Src(Top),
           errors' \subseteq Located, Attributed(errors')
    PROVE  LoaderInv'
<1> USE DEF cli
<1> DEFINE n == Len(stack) - 1
<1>1. /\ n \in Nat /\ Len(stack) = n + 1 /\ Top \in Frame /\ Top = stack[n + 1]
      /\ stack' \in Seq(Frame) /\ Len(stack') = n + 1 /\ stack' # <<>>
      /\ DOMAIN stack = 1 .. n + 1 /\ DOMAIN stack' = 1 .. n + 1
      /\ \A i \in 1 .. n : stack'[i] = stack[i]
      /\ stack'[n + 1] = f /\ Top' = f
  <2>1. stack \in Seq(Frame) BY DEF LoaderInv, TypeOK
  <2> QED BY <2>1, TopFrame DEF LoaderInv, Top
<1>2. /\ TypeOK /\ FramesOK /\ FileOK /\ OneFileOK /\ NoReentry /\ AttributionRight
  BY DEF LoaderInv
<1>3. flow'.is = "running" /\ flow' # Returned BY DEF Running, Returned
<1>4. current_source' \in Mods \cup {NoSource} BY <1>1 DEF Src, Frame
<1>5. \A i \in 1 .. n + 1 :
        /\ stack'[i].mod = stack[i].mod /\ stack'[i].via = stack[i].via
        /\ stack'[i].prev = stack[i].prev
  BY <1>1
<1> HIDE DEF n
<1>6. TypeOK'
  <2>1. (\A i \in DOMAIN stack :
          /\ text[stack[i].mod].is = "program"
          /\ stack[i].next <= Len(Clauses(stack[i])) + 1
          /\ (i < Len(stack) \/ flow # Running) =>
                stack[i].next <= Len(Clauses(stack[i])))'
    <3> SUFFICES ASSUME NEW i \in 1 .. n + 1
                 PROVE  (/\ text[stack[i].mod].is = "program"
                         /\ stack[i].next <= Len(Clauses(stack[i])) + 1
                         /\ (i < Len(stack) \/ flow # Running) =>
                               stack[i].next <= Len(Clauses(stack[i])))'
      BY <1>1
    <3>1. CASE i = n + 1
      <4>1. text[f.mod].is = "program" BY <1>2, TopFrame
      <4> QED BY <1>1, <3>1, <4>1 DEF Clauses
    <3>2. CASE i \in 1 .. n
      <4>1. i \in DOMAIN stack /\ i < Len(stack) BY <1>1, <3>2
      <4>2. /\ text[stack[i].mod].is = "program"
            /\ stack[i].next <= Len(Clauses(stack[i])) + 1
            /\ stack[i].next <= Len(Clauses(stack[i]))
        BY <1>2, <4>1 DEF TypeOK
      <4> QED BY <1>1, <3>2, <4>2 DEF Clauses
    <3> QED BY <1>1, <3>1, <3>2
  <2> QED BY <1>1, <1>2, <1>4, <2>1 DEF TypeOK
<1>7. FramesOK'
  <2> SUFFICES ASSUME NEW i \in 1 .. n + 1
               PROVE  /\ stack[i].via \in Nested <=> i > 1
                      /\ stack[i].via # "file" => stack[i].mod \in visiting'
                      /\ stack[i].via = "file" => stack[i].mod = Head(files)
                      /\ stack[i].via \in Nested \cup {command}
                      /\ i > 1 => stack[i].prev = Src(stack[i - 1])
    BY <1>1, <1>5 DEF FramesOK, Src
  <2>1. i \in DOMAIN stack BY <1>1
  <2> QED BY <1>2, <2>1 DEF FramesOK
<1>8. FileOK' BY <1>2, <1>1 DEF FileOK
<1>9. FlowOK' BY <1>1, <1>3, <1>5 DEF FlowOK, Src
<1>10. RaisedOK' BY <1>3 DEF RaisedOK
<1>11. OneFileOK' BY <1>2 DEF OneFileOK
<1>12. NoReentry' BY <1>1, <1>2, <1>5 DEF NoReentry
<1>13. AttributionRight' BY <1>2 DEF AttributionRight, Attributed, Where
<1>14. IdleOK' BY <1>1 DEF IdleOK, Idle
<1> QED BY <1>6, <1>7, <1>8, <1>9, <1>10, <1>11, <1>12, <1>13, <1>14 DEF LoaderInv

LEMMA AdvanceStep ==
    ASSUME LoaderInv, stack # <<>>, Top.next <= Len(Clauses(Top)),
           stack' = Advance(stack), flow' = Running,
           UNCHANGED <<cli, text, loads>>,
           module_cache' \subseteq Mods, failed_modules' \subseteq Mods,
           visiting' \subseteq Mods,
           \A i \in DOMAIN stack :
              stack[i].via # "file" => stack[i].mod \in visiting',
           current_source' = Src(Top),
           errors' \subseteq Located, Attributed(errors')
    PROVE  LoaderInv'
<1> DEFINE f == [Top EXCEPT !.next = @ + 1]
<1>1. TypeOK BY DEF LoaderInv
<1>2. Top \in Frame BY <1>1, TopFrame
<1>3. Clauses(Top) \in Seq(Mods \cup {NoFile}) BY <1>1, ClauseType
<1>4. f \in Frame /\ f.mod = Top.mod /\ f.via = Top.via /\ f.prev = Top.prev
      /\ f.phase = Top.phase /\ f.next = Top.next + 1
  BY <1>2 DEF Frame
<1>5. f.next <= Len(Clauses(f)) + 1 BY <1>2, <1>3, <1>4 DEF Clauses, Frame
<1>6. /\ stack' \in Seq(Frame) /\ Len(stack') = Len(stack)
      /\ \A i \in 1 .. Len(stack) - 1 : stack'[i] = stack[i]
      /\ stack'[Len(stack)] = f
  BY <1>1, AdvanceFrame
<1> HIDE DEF f
<1> QED BY <1>4, <1>5, <1>6, GoOnStep

-----------------------------------------------------------------------------
(* load_module: it fails to read or parse, or its frame is pushed.         *)

LEMMA LoadStep ==
    ASSUME LoaderInv, NEW m \in Mods, NEW asker \in Mods,
           NEW via \in {"import", "reexport", "many", "module"},
           LoadModule(m, via, asker), UNCHANGED <<cli, verdicts, errors>>,
           flow = Running, via \in Nested <=> stack # <<>>,
           stack # <<>> => m \notin visiting /\ Top.next <= Len(Clauses(Top)),
           stack = <<>> => current_source = NoSource,
           asker = Where(current_source),
           files # <<>>, Head(files) \in Mods,
           via \in Nested \cup {command}
    PROVE  LoaderInv'
<1> USE DEF cli, verdicts
<1> DEFINE call == [mod |-> m, via |-> via, prev |-> current_source]
           n == Len(stack)
<1>1. /\ TypeOK /\ FramesOK /\ FlowOK /\ OneFileOK /\ NoReentry /\ AttributionRight
  BY DEF LoaderInv
<1>2. /\ stack \in Seq(Frame) /\ n \in Nat /\ DOMAIN stack = 1 .. n
      /\ text \in [Mods -> Texts \cup {Unread}] /\ loads \in [Mods -> Nat]
      /\ current_source \in Mods \cup {NoSource}
  BY <1>1 DEF TypeOK
<1>3. stack # <<>> => current_source = Src(Top) /\ Top = stack[n]
  BY <1>1 DEF FlowOK, Running, Top
<1>4. call \in Call BY <1>2 DEF Call
<1>5. PICK t \in IF text[m] = Unread THEN Texts ELSE {text[m]} :
        /\ text' = [text EXCEPT ![m] = t]
        /\ loads' = [loads EXCEPT ![m] = @ + 1]
        /\ \/ /\ t.is = "unreadable"
              /\ flow' = Raised([kind |-> "unreadable", at |-> asker, to |-> m],
                                call)
              /\ UNCHANGED <<stack, visiting, current_source>>
           \/ /\ t.is = "syntax error"
              /\ current_source' = m
              /\ flow' = Raised([kind |-> "syntax", at |-> m, to |-> m], call)
              /\ UNCHANGED <<stack, visiting>>
           \/ /\ t.is = "program"
              /\ current_source' = m
              /\ visiting' = visiting \cup {m}
              /\ stack' = Append(stack, [mod |-> m, via |-> via,
                                         prev |-> current_source,
                                         phase |-> "imports", next |-> 1])
              /\ flow' = Running
  BY DEF LoadModule
<1>6. t \in Texts \cup {Unread} BY <1>2, <1>5
<1>7. text' \in [Mods -> Texts \cup {Unread}] /\ loads' \in [Mods -> Nat]
  <2>1. text' = [text EXCEPT ![m] = t] /\ loads' = [loads EXCEPT ![m] = @ + 1]
    BY <1>5
  <2>2. text' \in [Mods -> Texts \cup {Unread}] BY <1>2, <1>6, <2>1
  <2>3. loads' \in [Mods -> Nat] BY <1>2, <2>1
  <2> QED BY <2>2, <2>3
(* What was read of the modules on the stack stays. *)
<1>8. \A i \in 1 .. n :
        /\ text'[stack[i].mod] = text[stack[i].mod]
        /\ text[stack[i].mod].is = "program"
        /\ stack[i] \in Frame
        /\ stack[i].next <= Len(Clauses(stack[i]))
        /\ stack[i].next <= Len(Clauses(stack[i])) + 1
  <2> SUFFICES ASSUME NEW i \in 1 .. n
               PROVE  /\ text'[stack[i].mod] = text[stack[i].mod]
                      /\ text[stack[i].mod].is = "program"
                      /\ stack[i] \in Frame
                      /\ stack[i].next <= Len(Clauses(stack[i]))
                      /\ stack[i].next <= Len(Clauses(stack[i])) + 1
    OBVIOUS
  <2>1. stack[i] \in Frame BY <1>2
  <2>2. /\ text[stack[i].mod].is = "program"
        /\ stack[i].next <= Len(Clauses(stack[i])) + 1
        /\ i < n => stack[i].next <= Len(Clauses(stack[i]))
    BY <1>1, <1>2 DEF TypeOK
  <2>3. stack[i].next <= Len(Clauses(stack[i])) BY <1>2, <1>3, <2>2
  <2>4. stack[i].mod \in Mods BY <2>1 DEF Frame
  <2>5. text[stack[i].mod] # Unread BY <2>2 DEF Unread, Bad
  <2>6. text'[stack[i].mod] = text[stack[i].mod] BY <1>2, <1>5, <2>4, <2>5
  <2> QED BY <2>1, <2>2, <2>3, <2>6
<1>9. AttributionRight' /\ OneFileOK' BY <1>1 DEF AttributionRight, OneFileOK
<1> HIDE DEF n, call
<1>10. ASSUME NEW e \in Error, flow' = Raised(e, call), UNCHANGED <<stack, visiting>>,
              current_source' \in Mods \cup {NoSource},
              e.at = IF current_source' = NoSource THEN Head(files) ELSE current_source'
       PROVE  LoaderInv'
  <2>1. /\ flow' \in [is: {"raised"}, error: Error, call: Call]
        /\ flow'.is = "raised" /\ flow'.error = e /\ flow'.call = call
        /\ flow' # Running /\ flow' # Returned
    BY <1>4, <1>10 DEF Raised, Running, Returned
  <2>2. call.mod = m /\ call.via = via /\ call.prev = current_source BY DEF call
  <2>3. TypeOK'
    <3>1. (\A i \in DOMAIN stack :
             /\ text[stack[i].mod].is = "program"
             /\ stack[i].next <= Len(Clauses(stack[i])) + 1
             /\ (i < Len(stack) \/ flow # Running) =>
                   stack[i].next <= Len(Clauses(stack[i])))'
      BY <1>2, <1>8, <1>10 DEF Clauses
    <3> QED BY <1>1, <1>7, <1>10, <2>1, <3>1 DEF TypeOK
  <2>4. FramesOK' BY <1>1, <1>10 DEF FramesOK, Src
  <2>5. IdleOK' /\ FileOK' /\ FlowOK' BY <2>1 DEF IdleOK, Idle, FileOK, FlowOK
  <2>6. RaisedOK'
    <3>1. \A i \in DOMAIN stack : stack[i].mod = m => stack[i].via = "file"
      BY <1>1, <1>2 DEF FramesOK
    <3>2. Top' = Top BY <1>10 DEF Top
    <3> QED BY <1>3, <1>10, <2>1, <2>2, <3>1, <3>2 DEF RaisedOK, Where, Src
  <2>7. NoReentry' BY <1>1, <1>10 DEF NoReentry
  <2> QED BY <1>9, <2>3, <2>4, <2>5, <2>6, <2>7 DEF LoaderInv
<1>11. CASE /\ t.is = "unreadable"
            /\ flow' = Raised([kind |-> "unreadable", at |-> asker, to |-> m], call)
            /\ UNCHANGED <<stack, visiting, current_source>>
  <2> DEFINE e == [kind |-> "unreadable", at |-> asker, to |-> m]
  <2>1. e \in Error /\ e.at = asker BY DEF Error
  <2> HIDE DEF e
  <2> QED BY <1>2, <1>10, <1>11, <2>1 DEF Where, e
<1>12. CASE /\ t.is = "syntax error" /\ current_source' = m
            /\ flow' = Raised([kind |-> "syntax", at |-> m, to |-> m], call)
            /\ UNCHANGED <<stack, visiting>>
  <2> DEFINE e == [kind |-> "syntax", at |-> m, to |-> m]
  <2>1. e \in Error /\ e.at = m BY DEF Error
  <2>2. m # NoSource BY LoaderAssumption
  <2> HIDE DEF e
  <2> QED BY <1>10, <1>12, <2>1, <2>2 DEF e
<1>13. CASE /\ t.is = "program" /\ current_source' = m /\ visiting' = visiting \cup {m}
            /\ stack' = Append(stack, [mod |-> m, via |-> via,
                                       prev |-> current_source,
                                       phase |-> "imports", next |-> 1])
            /\ flow' = Running
  <2> DEFINE f == [mod |-> m, via |-> via, prev |-> current_source,
                   phase |-> "imports", next |-> 1]
  <2>1. /\ f \in Frame /\ f.mod = m /\ f.via = via /\ f.prev = current_source
        /\ f.phase = "imports" /\ f.next = 1
    BY <1>2 DEF Frame
  <2> HIDE DEF f
  <2>2. /\ stack' \in Seq(Frame) /\ Len(stack') = n + 1 /\ DOMAIN stack' = 1 .. n + 1
        /\ \A i \in 1 .. n : stack'[i] = stack[i]
        /\ stack'[n + 1] = f /\ Top' = f /\ stack' # <<>>
    <3>1. stack' = Append(stack, f) BY <1>13 DEF f
    <3>2. /\ stack' \in Seq(Frame) /\ Len(stack') = n + 1
          /\ DOMAIN stack' = 1 .. n + 1 /\ stack'[n + 1] = f
      BY <1>2, <2>1, <3>1 DEF n
    <3>3. \A i \in 1 .. n : stack'[i] = stack[i] BY <1>2, <3>1 DEF n
    <3>4. Top' = f /\ stack' # <<>> BY <1>2, <3>2 DEF Top
    <3> QED BY <3>2, <3>3, <3>4
  <2>3. flow'.is = "running" /\ flow' # Returned BY <1>13 DEF Running, Returned
  <2>4. TypeOK'
    <3>1. text'[m] = t /\ text'[m].imports \in Seq(Mods \cup {NoFile})
      <4>1. t \in Texts BY <1>6, <1>13 DEF Unread, Bad
      <4> QED BY <1>2, <1>5, <4>1, ProgramClauses
    <3>2. 1 <= Len(text'[m].imports) + 1 BY <3>1
    <3>3. (\A i \in DOMAIN stack :
             /\ text[stack[i].mod].is = "program"
             /\ stack[i].next <= Len(Clauses(stack[i])) + 1
             /\ (i < Len(stack) \/ flow # Running) =>
                   stack[i].next <= Len(Clauses(stack[i])))'
      <4> SUFFICES ASSUME NEW i \in 1 .. n + 1
                   PROVE  (/\ text[stack[i].mod].is = "program"
                           /\ stack[i].next <= Len(Clauses(stack[i])) + 1
                           /\ (i < Len(stack) \/ flow # Running) =>
                                 stack[i].next <= Len(Clauses(stack[i])))'
        BY <2>2
      <4>1. CASE i = n + 1 BY <1>2, <1>13, <2>1, <2>2, <3>1, <3>2, <4>1 DEF Clauses
      <4>2. CASE i \in 1 .. n BY <1>2, <1>8, <2>2, <4>2 DEF Clauses
      <4> QED BY <1>2, <4>1, <4>2
    <3> QED BY <1>1, <1>7, <1>13, <2>2, <3>3 DEF TypeOK
  <2>5. FramesOK'
    <3> SUFFICES ASSUME NEW i \in 1 .. n + 1
                 PROVE  (/\ stack[i].via \in Nested <=> i > 1
                         /\ stack[i].via # "file" => stack[i].mod \in visiting
                         /\ stack[i].via = "file" => stack[i].mod = Head(files)
                         /\ stack[i].via \in Nested \cup {command}
                         /\ i > 1 => stack[i].prev = Src(stack[i - 1]))'
      BY <2>2 DEF FramesOK
    <3>1. CASE i = n + 1
      <4>1. stack'[i] = f BY <2>2, <3>1
      <4>2. via # "file" OBVIOUS
      <4>3. via \in Nested <=> i > 1 BY <1>2, <3>1 DEF n
      <4>4. i > 1 => current_source = Src(stack[n]) BY <1>2, <1>3, <3>1 DEF n
      <4>5. i > 1 => stack'[i - 1] = stack[n] BY <1>2, <2>2, <3>1
      <4> QED BY <1>13, <2>1, <4>1, <4>2, <4>3, <4>4, <4>5 DEF Src
    <3>2. CASE i \in 1 .. n
      <4>1. stack'[i] = stack[i] /\ i \in DOMAIN stack BY <1>2, <2>2, <3>2
      <4>2. i > 1 => stack'[i - 1] = stack[i - 1] BY <1>2, <2>2, <3>2
      <4>3. /\ stack[i].via \in Nested <=> i > 1
            /\ stack[i].via # "file" => stack[i].mod \in visiting
            /\ stack[i].via = "file" => stack[i].mod = Head(files)
            /\ stack[i].via \in Nested \cup {command}
            /\ i > 1 => stack[i].prev = Src(stack[i - 1])
        BY <1>1, <4>1 DEF FramesOK
      <4> QED BY <1>13, <4>1, <4>2, <4>3 DEF Src
    <3> QED BY <1>2, <3>1, <3>2
  <2>6. IdleOK' /\ FileOK' /\ RaisedOK'
    BY <2>2, <2>3 DEF IdleOK, Idle, FileOK, RaisedOK
  <2>7. FlowOK' BY <1>13, <2>1, <2>2, <2>3 DEF FlowOK, Src
  <2>8. NoReentry'
    <3>1. \A i \in 1 .. n : stack[i].mod = m => stack[i].via = "file"
      BY <1>1, <1>2 DEF FramesOK
    <3> SUFFICES ASSUME NEW i \in 1 .. n + 1, NEW j \in 1 .. n + 1, i # j,
                        stack'[i].mod = stack'[j].mod
                 PROVE  "file" \in {stack'[i].via, stack'[j].via}
      BY <2>2 DEF NoReentry
    <3>2. CASE i = n + 1 BY <1>2, <2>1, <2>2, <3>1, <3>2
    <3>3. CASE j = n + 1 BY <1>2, <2>1, <2>2, <3>1, <3>3
    <3>4. CASE i \in 1 .. n /\ j \in 1 .. n BY <1>1, <1>2, <2>2, <3>4 DEF NoReentry
    <3> QED BY <1>2, <3>2, <3>3, <3>4
  <2> QED BY <1>9, <2>4, <2>5, <2>6, <2>7, <2>8 DEF LoaderInv
<1> QED BY <1>5, <1>11, <1>12, <1>13 DEF call

-----------------------------------------------------------------------------
(* load_module returns to an importer.                                     *)

LEMMA ReturnStep ==
    ASSUME LoaderInv, ReturnModule
    PROVE  LoaderInv'
<1> USE DEF cli
<1> DEFINE n == Len(stack) - 1
<1>0. /\ stack # <<>> /\ Top.via \in Nested
      /\ visiting' = visiting \ {Top.mod} /\ current_source' = Top.prev
      /\ module_cache' = module_cache \cup {Top.mod}
      /\ stack' = Below /\ flow' = Returned
      /\ UNCHANGED <<cli, text, failed_modules, errors, loads>>
  BY DEF ReturnModule, ExportsDone, InPhase, Nested
<1>1. /\ TypeOK /\ FramesOK /\ FileOK /\ OneFileOK /\ NoReentry /\ AttributionRight
  BY DEF LoaderInv
<1>2. /\ n \in Nat /\ Len(stack) = n + 1 /\ Top \in Frame /\ Top = stack[n + 1]
      /\ stack' \in Seq(Frame) /\ Len(stack') = n
      /\ DOMAIN stack = 1 .. n + 1 /\ DOMAIN stack' = 1 .. n
      /\ \A i \in 1 .. n : stack'[i] = stack[i]
  <2>1. stack \in Seq(Frame) BY <1>1 DEF TypeOK
  <2> QED BY <1>0, <1>1, <2>1, TopFrame DEF Top
<1> HIDE DEF n
<1>3. n # 0 /\ Top.prev = Src(stack[n]) /\ stack' # <<>> /\ Top' = stack[n]
  <2>1. n # 0 /\ Top.prev = Src(stack[n]) BY <1>0, <1>1, <1>2 DEF FramesOK
  <2> QED BY <1>2, <2>1 DEF Top
<1>4. flow'.is = "returned" /\ flow' # Running BY <1>0 DEF Running, Returned
<1>5. TypeOK'
  <2>1. (\A i \in DOMAIN stack :
          /\ text[stack[i].mod].is = "program"
          /\ stack[i].next <= Len(Clauses(stack[i])) + 1
          /\ (i < Len(stack) \/ flow # Running) =>
                stack[i].next <= Len(Clauses(stack[i])))'
    <3> SUFFICES ASSUME NEW i \in 1 .. n
                 PROVE  /\ text[stack[i].mod].is = "program"
                        /\ stack[i].next <= Len(Clauses(stack[i]))
                        /\ stack[i].next <= Len(Clauses(stack[i])) + 1
      BY <1>0, <1>2 DEF Clauses
    <3>1. i \in DOMAIN stack /\ i < Len(stack) BY <1>2
    <3> QED BY <1>1, <3>1 DEF TypeOK
  <2>2. Top.mod \in Mods /\ Top.prev \in Mods \cup {NoSource} BY <1>2 DEF Frame
  <2> QED BY <1>0, <1>1, <1>2, <2>1, <2>2 DEF TypeOK
<1>6. FramesOK'
  <2> SUFFICES ASSUME NEW i \in 1 .. n
               PROVE  /\ stack[i].via \in Nested <=> i > 1
                      /\ stack[i].via # "file" => stack[i].mod \in visiting \ {Top.mod}
                      /\ stack[i].via = "file" => stack[i].mod = Head(files)
                      /\ stack[i].via \in Nested \cup {command}
                      /\ i > 1 => stack[i].prev = Src(stack[i - 1])
    BY <1>0, <1>2 DEF FramesOK, Src
  <2>1. i \in DOMAIN stack /\ n + 1 \in DOMAIN stack /\ i # n + 1 BY <1>2
  <2>2. Top.via # "file" BY <1>0 DEF Nested
  <2>3. stack[i].via # "file" => stack[i].mod # Top.mod
    BY <1>1, <1>2, <2>1, <2>2 DEF NoReentry
  <2> QED BY <1>1, <2>1, <2>3 DEF FramesOK
<1>7. FileOK' BY <1>0, <1>1 DEF FileOK
<1>8. FlowOK' BY <1>0, <1>3, <1>4 DEF FlowOK, Src
<1>9. RaisedOK' /\ IdleOK' BY <1>4 DEF RaisedOK, IdleOK, Idle
<1>10. OneFileOK' /\ AttributionRight' BY <1>0, <1>1 DEF OneFileOK, AttributionRight
<1>11. NoReentry' BY <1>1, <1>2 DEF NoReentry
<1> QED BY <1>5, <1>6, <1>7, <1>8, <1>9, <1>10, <1>11 DEF LoaderInv

-----------------------------------------------------------------------------
(* Steps of the commands, after which no module is being loaded.           *)

LEMMA EmptyStep ==
    ASSUME LoaderInv, stack' = <<>>, flow' = Running,
           UNCHANGED <<command, text, loads>>,
           files' \in Seq(Mods \cup {Foreign}), failed' \in BOOLEAN,
           visiting' \subseteq Mods, module_cache' \subseteq Mods,
           failed_modules' \subseteq Mods,
           current_source' \in Mods \cup {NoSource},
           errors' \subseteq Located, printed' \subseteq Located,
           exit' \in {"running", "success", "failure"},
           OneFileOK', IdleOK', AttributionRight'
    PROVE  LoaderInv'
<1>1. TypeOK BY DEF LoaderInv
<1>2. stack' \in Seq(Frame) /\ DOMAIN stack' = {} OBVIOUS
<1>3. flow'.is = "running" /\ flow' # Returned BY DEF Running, Returned
<1>4. TypeOK' BY <1>1, <1>2 DEF TypeOK
<1>5. FramesOK' /\ NoReentry' BY <1>2 DEF FramesOK, NoReentry
<1>6. FileOK' /\ FlowOK' /\ RaisedOK' BY <1>3 DEF FileOK, FlowOK, RaisedOK
<1> QED BY <1>4, <1>5, <1>6 DEF LoaderInv

LEMMA ShownOK ==
    ASSUME NEW d \in SUBSET Located, d = {} \/ Head(files) \in Mods
    PROVE  /\ Shown(d) \subseteq Located
           /\ Attributed(d) => \A l \in Shown(d) : l.source = l.error.at
<1> DEFINE To(l) == [l EXCEPT !.source = IF @ = NoSource THEN Head(files) ELSE @]
<1>1. ASSUME NEW l \in d
      PROVE  To(l) \in Located /\ To(l).error = l.error /\ To(l).source = Where(l.source)
  BY <1>1 DEF Located, Where
<1>2. Shown(d) = {To(l) : l \in d} BY DEF Shown
<1> HIDE DEF To
<1> QED BY <1>1, <1>2 DEF Attributed

LEMMA EndEntryStep ==
    ASSUME LoaderInv, NEW d \in SUBSET Located, Attributed(d),
           d = {} \/ Head(files) \in Mods, files # <<>>, command = "many",
           EndEntry(d), stack' = <<>>,
           UNCHANGED <<command, exit, text, loads>>,
           module_cache' \subseteq Mods, failed_modules' \subseteq Mods
    PROVE  LoaderInv'
<1>1. TypeOK /\ AttributionRight BY DEF LoaderInv
<1>2. /\ printed' = printed \cup Shown(d) /\ errors' = {} /\ visiting' = {}
      /\ failed' = (failed \/ d # {}) /\ current_source' = NoSource
      /\ files' = Tail(files) /\ flow' = Running
  BY DEF EndEntry
<1>3. /\ files' \in Seq(Mods \cup {Foreign}) /\ failed' \in BOOLEAN
      /\ exit' \in {"running", "success", "failure"}
  BY <1>1, <1>2 DEF TypeOK
<1>4. printed' \subseteq Located BY <1>1, <1>2, ShownOK DEF TypeOK
<1>5. AttributionRight' BY <1>1, <1>2, ShownOK DEF AttributionRight
<1>6. OneFileOK' /\ IdleOK' BY <1>2 DEF OneFileOK, IdleOK
<1> QED BY <1>2, <1>3, <1>4, <1>5, <1>6, EmptyStep

LEMMA ExitStep ==
    ASSUME LoaderInv, NEW code \in {"success", "failure"},
           NEW d \in SUBSET Located, command # "module" => Attributed(d),
           d = {} \/ Head(files) \in Mods, Exit(code, d)
    PROVE  LoaderInv'
<1>1. TypeOK /\ AttributionRight /\ OneFileOK BY DEF LoaderInv
<1>2. /\ exit' = code /\ printed' = Shown(d) /\ stack' = <<>> /\ flow' = Running
      /\ UNCHANGED <<command, files, failed, text, visiting, module_cache,
                     failed_modules, current_source, errors, loads>>
  BY DEF Exit, verdicts
<1>3. exit' \in {"running", "success", "failure"} /\ exit' # "running" BY <1>2
<1>4. printed' \subseteq Located BY <1>2, ShownOK
<1>5. AttributionRight' BY <1>1, <1>2, ShownOK DEF AttributionRight
<1>6. OneFileOK' /\ IdleOK' BY <1>1, <1>2, <1>3 DEF OneFileOK, IdleOK, Idle
<1>7. /\ files' \in Seq(Mods \cup {Foreign}) /\ failed' \in BOOLEAN
      /\ visiting' \subseteq Mods /\ module_cache' \subseteq Mods
      /\ failed_modules' \subseteq Mods /\ current_source' \in Mods \cup {NoSource}
      /\ errors' \subseteq Located
  BY <1>1, <1>2 DEF TypeOK
<1> QED BY <1>2, <1>3, <1>4, <1>5, <1>6, <1>7, EmptyStep

THEOREM InitOK == Init => LoaderInv
<1> SUFFICES ASSUME Init PROVE LoaderInv OBVIOUS
<1> USE DEF Init, Running, Returned
<1>1. TypeOK
  <2>1. files \in Seq(Mods \cup {Foreign})
    <3>1. CASE files \in SeqsUpTo(Mods \cup {Foreign}, MaxEntries)
      BY <3>1, SeqsUpToAreSeqs, LoaderAssumption
    <3>2. CASE files \in [{1} -> Mods]
      <4>1. files \in [1 .. 1 -> Mods \cup {Foreign}] BY <3>2
      <4> QED BY <4>1
    <3> QED BY <3>1, <3>2
  <2>2. Running.is = "running" /\ flow \in {Running, Returned} OBVIOUS
  <2>3. stack \in Seq(Frame) /\ DOMAIN stack = {} OBVIOUS
  <2>4. text \in [Mods -> Texts \cup {Unread}] OBVIOUS
  <2>5. loads \in [Mods -> Nat] OBVIOUS
  <2> QED BY <2>1, <2>2, <2>3, <2>4, <2>5 DEF TypeOK
<1>2. OneFileOK BY DEF OneFileOK
<1>3. FramesOK /\ IdleOK /\ FileOK /\ FlowOK /\ RaisedOK
  BY DEF FramesOK, IdleOK, FileOK, FlowOK, RaisedOK, Idle
<1>4. NoReentry /\ AttributionRight BY DEF NoReentry, AttributionRight
<1> QED BY <1>1, <1>2, <1>3, <1>4 DEF LoaderInv

-----------------------------------------------------------------------------
(* One lemma per part of the next-state relation.                          *)

LEMMA HereOK ==
    ASSUME LoaderInv, stack # <<>>, flow.is # "raised",
           NEW k \in {"unresolved", "circular", "no export", "type"},
           NEW to \in Mods \cup {NoFile}
    PROVE  /\ ErrorHere(k, to) \in Error
           /\ ErrorHere(k, to).at = Where(current_source)
<1>1. TypeOK /\ FlowOK /\ FramesOK BY DEF LoaderInv
<1>2. Top \in Frame /\ Len(stack) \in DOMAIN stack BY <1>1, TopFrame
<1>3. Top.mod \in Mods /\ Top.mod # NoSource BY <1>2, LoaderAssumption DEF Frame
<1>4. Top.via = "file" => Top.mod = Head(files) BY <1>1, <1>2 DEF FramesOK, Top
<1>5. current_source = Src(Top) BY <1>1 DEF FlowOK
<1>6. Top.mod = Where(current_source) BY <1>3, <1>4, <1>5 DEF Src, Where
<1> QED BY <1>3, <1>6 DEF ErrorHere, Error

LEMMA RecordedOK ==
    ASSUME LoaderInv, NEW e \in Error, e.at = Where(current_source)
    PROVE  /\ {Recorded(e)} \subseteq Located /\ Attributed({Recorded(e)})
           /\ errors \subseteq Located /\ Attributed(errors)
<1>1. TypeOK /\ AttributionRight BY DEF LoaderInv
<1>2. errors \subseteq Located /\ current_source \in Mods \cup {NoSource}
  BY <1>1 DEF TypeOK
<1>3. Recorded(e) \in Located /\ Recorded(e).error = e
      /\ Recorded(e).source = current_source
  BY <1>2 DEF Recorded, Located
<1>4. Attributed(errors) BY <1>1 DEF AttributionRight, Attributed, Where
<1> QED BY <1>2, <1>3, <1>4 DEF Attributed

LEMMA AtClauseOK ==
    ASSUME LoaderInv, NEW ph, AtClause(ph)
    PROVE  /\ stack # <<>> /\ flow = Running /\ flow.is = "running"
           /\ Top.next <= Len(Clauses(Top)) /\ Clause \in Mods \cup {NoFile}
           /\ Top.mod \in Mods /\ Top.mod = Where(current_source)
           /\ files # <<>> /\ Head(files) \in Mods
<1>1. TypeOK /\ FlowOK /\ FramesOK /\ FileOK BY DEF LoaderInv
<1>2. /\ stack # <<>> /\ flow = Running /\ flow.is = "running"
      /\ Top.next <= Len(Clauses(Top))
  BY DEF AtClause, InPhase, Running
<1>3. Clause \in Mods \cup {NoFile} BY <1>1, <1>2, ClauseType
<1>4. ErrorHere("type", NoFile).at = Where(current_source) BY <1>2, HereOK
<1>5. Top.mod = Where(current_source) BY <1>4 DEF ErrorHere
<1>6. Top.mod \in Mods BY <1>1, <1>2, TopFrame DEF Frame
<1> QED BY <1>1, <1>2, <1>3, <1>5, <1>6 DEF FileOK

LEMMA ClauseRaises ==
    ASSUME LoaderInv, NEW ph, AtClause(ph),
           NEW k \in {"unresolved", "circular"}, NEW to \in Mods \cup {NoFile},
           Raise(ErrorHere(k, to)),
           UNCHANGED <<cli, text, visiting, verdicts, current_source, errors, loads>>
    PROVE  LoaderInv'
<1>1. stack # <<>> /\ flow.is # "raised" BY AtClauseOK
<1>2. ErrorHere(k, to) \in Error /\ ErrorHere(k, to).at = Where(current_source)
  BY <1>1, HereOK
<1>3. errors' \subseteq Located /\ Attributed(errors') BY <1>2, RecordedOK
<1> QED BY <1>1, <1>2, <1>3, RaiseStep

LEMMA ClauseLoads ==
    ASSUME LoaderInv, NEW ph, AtClause(ph), Clause \in Mods \ visiting,
           NEW via \in Nested, LoadImported(Clause, via),
           UNCHANGED <<cli, verdicts, errors>>
    PROVE  LoaderInv'
<1>1. CASE /\ Clause \in module_cache /\ flow' = Returned
           /\ UNCHANGED <<text, stack, visiting, current_source, loads>>
  <2>1. stack # <<>> /\ flow.is = "running" /\ Top.next <= Len(Clauses(Top))
        /\ flow = Running
    BY AtClauseOK
  <2>2. /\ TypeOK /\ FramesOK /\ IdleOK /\ FileOK /\ FlowOK /\ OneFileOK
        /\ NoReentry /\ AttributionRight
    BY DEF LoaderInv
  <2>3. flow'.is = "returned" /\ flow' # Running BY <1>1 DEF Running, Returned
  <2>4. TypeOK'
    <3>1. (\A i \in DOMAIN stack :
             /\ text[stack[i].mod].is = "program"
             /\ stack[i].next <= Len(Clauses(stack[i])) + 1
             /\ (i < Len(stack) \/ flow # Running) =>
                   stack[i].next <= Len(Clauses(stack[i])))'
      <4> SUFFICES ASSUME NEW i \in DOMAIN stack
                   PROVE  /\ text[stack[i].mod].is = "program"
                          /\ stack[i].next <= Len(Clauses(stack[i])) + 1
                          /\ stack[i].next <= Len(Clauses(stack[i]))
        BY <1>1 DEF Clauses
      <4>1. i < Len(stack) \/ stack[i] = Top BY <2>2 DEF TypeOK, Top
      <4> QED BY <2>1, <2>2, <4>1 DEF TypeOK
    <3> QED BY <1>1, <2>2, <3>1 DEF TypeOK, cli, verdicts
  <2>5. FramesOK' /\ NoReentry' BY <1>1, <2>2 DEF FramesOK, NoReentry, Src, cli
  <2>6. IdleOK' /\ FileOK' BY <1>1, <2>1, <2>2, <2>3 DEF IdleOK, Idle, FileOK, cli
  <2>7. FlowOK' /\ RaisedOK' BY <1>1, <2>1, <2>2, <2>3 DEF FlowOK, RaisedOK, Src, Top
  <2>8. OneFileOK' /\ AttributionRight' BY <2>2 DEF OneFileOK, AttributionRight, cli
  <2> QED BY <2>4, <2>5, <2>6, <2>7, <2>8 DEF LoaderInv
<1>2. CASE Clause \notin module_cache /\ LoadModule(Clause, via, Top.mod)
  BY <1>2, AtClauseOK, LoadStep DEF Nested
<1> QED BY <1>1, <1>2 DEF LoadImported

LEMMA ImportsOK ==
    ASSUME LoaderInv, ResolveImports
    PROVE  LoaderInv'
<1>1. CASE ImportUnresolved BY <1>1, ClauseRaises DEF ImportUnresolved
<1>2. CASE ImportCircular
  <2>1. Clause \in Mods \cup {NoFile} BY <1>2, AtClauseOK DEF ImportCircular
  <2> QED BY <1>2, <2>1, ClauseRaises DEF ImportCircular
<1>3. CASE ImportFailed
  <2>1. /\ AtClause("imports") /\ stack' = Advance(stack)
        /\ UNCHANGED <<cli, text, flow, visiting, verdicts, current_source, errors,
                       loads>>
    BY <1>3 DEF ImportFailed
  <2>2. /\ stack # <<>> /\ flow = Running /\ flow.is # "raised"
        /\ Top.next <= Len(Clauses(Top))
    BY <2>1, AtClauseOK
  <2>3. TypeOK /\ FlowOK /\ FramesOK /\ AttributionRight BY DEF LoaderInv
  <2>4. /\ module_cache' \subseteq Mods /\ failed_modules' \subseteq Mods
        /\ visiting' \subseteq Mods /\ errors' \subseteq Located
    BY <2>1, <2>3 DEF TypeOK, verdicts
  <2>5. Attributed(errors') BY <2>1, <2>3 DEF AttributionRight, Attributed, Where
  <2>6. \A i \in DOMAIN stack : stack[i].via # "file" => stack[i].mod \in visiting'
    BY <2>1, <2>3 DEF FramesOK
  <2>7. current_source' = Src(Top) BY <2>1, <2>2, <2>3 DEF FlowOK
  <2> QED BY <2>1, <2>2, <2>4, <2>5, <2>6, <2>7, AdvanceStep
<1>4. CASE ImportLoad BY <1>4, ClauseLoads DEF ImportLoad, Nested
<1>5. CASE BindNames
  <2>0. /\ flow = Returned /\ stack # <<>>
        /\ UNCHANGED <<cli, text, visiting, verdicts, current_source, errors, loads>>
    BY <1>5 DEF BindNames
  <2>1. flow # Running /\ flow.is # "raised" BY <2>0 DEF Running, Returned
  <2>2. TypeOK /\ FlowOK /\ FramesOK /\ AttributionRight BY DEF LoaderInv
  <2>3. Top.next <= Len(Clauses(Top))
    BY <2>0, <2>1, <2>2, TopFrame DEF TypeOK, Top
  <2>4. Clause \in Mods \cup {NoFile} BY <2>0, <2>2, <2>3, ClauseType
  <2>5. errors' \subseteq Located /\ Attributed(errors')
    BY <2>0, <2>2 DEF AttributionRight, Attributed, Where, TypeOK
  <2>6. CASE stack' = Advance(stack) /\ flow' = Running
    <3>1. /\ module_cache' \subseteq Mods /\ failed_modules' \subseteq Mods
          /\ visiting' \subseteq Mods
      BY <2>0, <2>2 DEF TypeOK, verdicts
    <3>2. \A i \in DOMAIN stack : stack[i].via # "file" => stack[i].mod \in visiting'
      BY <2>0, <2>2 DEF FramesOK
    <3>3. current_source' = Src(Top) BY <2>0, <2>1, <2>2 DEF FlowOK
    <3> QED BY <2>0, <2>3, <2>5, <2>6, <3>1, <3>2, <3>3, AdvanceStep
  <2>7. CASE Raise(ErrorHere("no export", Clause))
    BY <2>0, <2>1, <2>4, <2>5, <2>7, HereOK, RaiseStep
  <2> QED BY <1>5, <2>6, <2>7 DEF BindNames
<1>6. CASE CatchImport
  <2>0. /\ flow.is = "raised" /\ flow.call.via = "import"
        /\ errors' = errors \cup {Recorded(flow.error)}
        /\ current_source' = flow.call.prev
        /\ visiting' = visiting \ {flow.call.mod}
        /\ failed_modules' = failed_modules \cup {flow.call.mod}
        /\ stack' = Advance(stack) /\ flow' = Running
        /\ UNCHANGED <<cli, text, module_cache, loads>>
    BY <1>6 DEF CatchImport
  <2>1. TypeOK /\ RaisedOK /\ FramesOK BY DEF LoaderInv
  <2>2. flow # Running /\ flow # Returned BY <2>0 DEF Running, Returned
  <2>3. flow.error \in Error /\ flow.call \in Call BY <2>1, <2>2 DEF TypeOK
  <2>4. /\ stack # <<>> /\ flow.call.prev = Src(Top)
        /\ flow.error.at = Where(current_source)
        /\ \A i \in DOMAIN stack :
              stack[i].mod = flow.call.mod => stack[i].via = "file"
    BY <2>0, <2>1 DEF RaisedOK, Nested
  <2>5. Top.next <= Len(Clauses(Top)) BY <2>1, <2>2, <2>4, TopFrame DEF TypeOK, Top
  <2>6. errors' \subseteq Located /\ Attributed(errors')
    BY <2>0, <2>3, <2>4, RecordedOK DEF Attributed
  <2>7. /\ module_cache' \subseteq Mods /\ failed_modules' \subseteq Mods
        /\ visiting' \subseteq Mods
    BY <2>0, <2>1, <2>3 DEF TypeOK, Call
  <2>8. \A i \in DOMAIN stack : stack[i].via # "file" => stack[i].mod \in visiting'
    BY <2>0, <2>1, <2>4 DEF FramesOK
  <2> QED BY <2>0, <2>4, <2>5, <2>6, <2>7, <2>8, AdvanceStep
<1> QED BY <1>1, <1>2, <1>3, <1>4, <1>5, <1>6 DEF ResolveImports

LEMMA InferOK ==
    ASSUME LoaderInv, InferOk \/ InferFails
    PROVE  LoaderInv'
<1> DEFINE e == ErrorHere("type", Top.mod)
<1>1. /\ stack # <<>> /\ flow = Running /\ flow.is # "raised"
      /\ Top.phase = "imports" /\ Top.via # "file"
      /\ UNCHANGED <<cli, text, visiting, verdicts, current_source, loads>>
      /\ errors' = errors \/ errors' = errors \cup {Recorded(e)}
  BY DEF InferOk, InferFails, ImportsBound, InPhase, Running
<1>2. TypeOK /\ FlowOK /\ FramesOK BY DEF LoaderInv
<1>3. Top \in Frame /\ Top.mod \in Mods BY <1>1, <1>2, TopFrame DEF Frame
<1>4. e \in Error /\ e.at = Where(current_source) BY <1>1, <1>3, HereOK
<1> HIDE DEF e
<1>5. errors' \subseteq Located /\ Attributed(errors')
  BY <1>1, <1>4, RecordedOK DEF Attributed
<1>6. CASE InferFails
  <2>1. Raise(e) BY <1>6 DEF InferFails, e
  <2> QED BY <1>1, <1>4, <1>5, <2>1, RaiseStep
<1>7. CASE InferOk
  <2> DEFINE f == [Top EXCEPT !.phase = "exports", !.next = 1]
             n == Len(stack) - 1
  <2>1. /\ f \in Frame /\ f.mod = Top.mod /\ f.via = Top.via /\ f.prev = Top.prev
        /\ f.phase = "exports" /\ f.next = 1
    <3> DEFINE g == [Top EXCEPT !.phase = "exports"]
    <3>1. /\ g \in Frame /\ g.mod = Top.mod /\ g.via = Top.via /\ g.prev = Top.prev
          /\ g.phase = "exports"
      BY <1>3 DEF Frame
    <3>2. f = [g EXCEPT !.next = 1] OBVIOUS
    <3> HIDE DEF f, g
    <3> QED BY <3>1, <3>2 DEF Frame
  <2> HIDE DEF f
  <2>2. stack' = Append(Below, f) /\ flow' = Running BY <1>1, <1>7 DEF InferOk, f
  <2>3. /\ n \in Nat /\ Len(stack) = n + 1 /\ Below \in Seq(Frame) /\ Len(Below) = n
        /\ \A i \in 1 .. n : Below[i] = stack[i]
    BY <1>1, <1>2, TopFrame
  <2> HIDE DEF n
  <2>4. /\ stack' \in Seq(Frame) /\ Len(stack') = Len(stack)
        /\ \A i \in 1 .. Len(stack) - 1 : stack'[i] = stack[i]
        /\ stack'[Len(stack)] = f
    <3>1. stack' \in Seq(Frame) /\ Len(stack') = n + 1 /\ stack'[n + 1] = f
      BY <2>1, <2>2, <2>3
    <3>2. \A i \in 1 .. n : stack'[i] = stack[i] BY <2>2, <2>3
    <3> QED BY <2>3, <3>1, <3>2 DEF n
  <2>5. f.next <= Len(Clauses(f)) + 1
    <3>1. text[f.mod] \in Texts
      BY <1>1, <1>2, <1>3, <2>1, TopFrame DEF TypeOK, Unread, Bad
    <3>2. Clauses(f) \in Seq(Mods \cup {NoFile}) BY <3>1, ProgramClauses DEF Clauses
    <3> QED BY <2>1, <3>2
  <2>6. /\ module_cache' \subseteq Mods /\ failed_modules' \subseteq Mods
        /\ visiting' \subseteq Mods
    BY <1>1, <1>2 DEF TypeOK, verdicts
  <2>7. \A i \in DOMAIN stack : stack[i].via # "file" => stack[i].mod \in visiting'
    BY <1>1, <1>2 DEF FramesOK
  <2>8. current_source' = Src(Top) BY <1>1, <1>2 DEF FlowOK
  <2> QED BY <1>1, <1>5, <2>1, <2>2, <2>4, <2>5, <2>6, <2>7, <2>8, GoOnStep
<1> QED BY <1>6, <1>7

LEMMA ExportsOK ==
    ASSUME LoaderInv, ComputeExportTable
    PROVE  LoaderInv'
<1>1. CASE ReexportUnresolved BY <1>1, ClauseRaises DEF ReexportUnresolved
<1>2. CASE ReexportCircular
  <2>1. Clause \in Mods \cup {NoFile} BY <1>2, AtClauseOK DEF ReexportCircular
  <2> QED BY <1>2, <2>1, ClauseRaises DEF ReexportCircular
<1>3. CASE ReexportLoad BY <1>3, ClauseLoads DEF ReexportLoad, Nested
<1>4. CASE PropagateReexport
  <2>0. /\ flow.is = "raised" /\ flow.call.via = "reexport" /\ Raise(flow.error)
        /\ UNCHANGED <<cli, text, visiting, verdicts, current_source, errors, loads>>
    BY <1>4 DEF PropagateReexport
  <2>1. TypeOK /\ RaisedOK BY DEF LoaderInv
  <2>2. flow.error \in Error BY <2>0, <2>1 DEF TypeOK, Running, Returned
  <2>3. stack # <<>> /\ flow.error.at = Where(current_source)
    BY <2>0, <2>1 DEF RaisedOK, Nested
  <2>4. errors \subseteq Located /\ Attributed(errors) BY <2>2, <2>3, RecordedOK
  <2>5. errors' \subseteq Located /\ Attributed(errors') BY <2>0, <2>4 DEF Attributed
  <2> QED BY <2>0, <2>2, <2>3, <2>5, RaiseStep
<1> QED BY <1>1, <1>2, <1>3, <1>4 DEF ComputeExportTable

(* The error that ended a command's load. *)
LEMMA EndsRaised ==
    ASSUME LoaderInv, flow.is = "raised", flow.call.via \notin Nested
    PROVE  /\ stack = <<>> /\ flow.call.via = command
           /\ flow.error \in Error /\ flow.error.at = Where(current_source)
           /\ flow.call.mod \in Mods /\ files # <<>> /\ Head(files) \in Mods
<1>1. TypeOK /\ RaisedOK /\ FileOK BY DEF LoaderInv
<1>2. flow # Running /\ flow # Returned BY DEF Running, Returned
<1>3. flow.error \in Error /\ flow.call \in Call BY <1>1, <1>2 DEF TypeOK
<1> QED BY <1>1, <1>2, <1>3 DEF RaisedOK, FileOK, Call

(* A command's own frame is the only one. *)
LEMMA EndsFrame ==
    ASSUME LoaderInv, stack # <<>>, flow = Running, Top.via \notin Nested
    PROVE  /\ Below = <<>> /\ Top.via = command /\ Top.mod \in Mods
           /\ files # <<>> /\ Head(files) \in Mods
           /\ Top.via = "file" => Top.mod = Head(files)
<1>1. TypeOK /\ FramesOK /\ FileOK BY DEF LoaderInv
<1>2. /\ Len(stack) \in Nat \ {0} /\ Len(stack) \in DOMAIN stack /\ Top \in Frame
      /\ Below \in Seq(Frame) /\ Len(Below) = Len(stack) - 1
  BY <1>1, TopFrame
<1>3. /\ Top.via \in Nested <=> Len(stack) > 1
      /\ Top.via \in Nested \cup {command}
      /\ Top.via = "file" => Top.mod = Head(files)
  BY <1>1, <1>2 DEF FramesOK, Top
<1>4. Len(stack) = 1 BY <1>2, <1>3
<1>5. Below = <<>> BY <1>2, <1>4
<1> QED BY <1>1, <1>2, <1>3, <1>5 DEF FileOK, Frame

LEMMA ManyOK ==
    ASSUME LoaderInv,
           ForeignEntry \/ SkipEntry \/ StartEntry \/ EntryOk \/ EntryFails \/ AllChecked
    PROVE  LoaderInv'
<1>0. TypeOK /\ IdleOK /\ AttributionRight BY DEF LoaderInv
<1>1. CASE ForeignEntry
  <2>0. /\ command = "many" /\ Idle /\ files # <<>>
        /\ files' = Tail(files) /\ failed' = TRUE
        /\ UNCHANGED <<command, printed, exit, text, stack, flow, visiting,
                       module_cache, failed_modules, current_source, errors, loads>>
    BY <1>1 DEF ForeignEntry, verdicts
  <2>1. stack' = <<>> /\ flow' = Running BY <2>0 DEF Idle
  <2>2. files' \in Seq(Mods \cup {Foreign}) BY <1>0, <2>0 DEF TypeOK
  <2>3. /\ visiting' \subseteq Mods /\ module_cache' \subseteq Mods
        /\ failed_modules' \subseteq Mods
        /\ current_source' \in Mods \cup {NoSource}
        /\ errors' \subseteq Located /\ printed' \subseteq Located
        /\ exit' \in {"running", "success", "failure"} /\ failed' \in BOOLEAN
    BY <1>0, <2>0 DEF TypeOK
  <2>4. errors = {} BY <1>0, <2>0 DEF IdleOK
  <2>5. OneFileOK' /\ IdleOK' /\ AttributionRight'
    BY <1>0, <2>0, <2>4 DEF OneFileOK, IdleOK, Idle, AttributionRight
  <2> QED BY <2>0, <2>1, <2>2, <2>3, <2>5, EmptyStep
<1>2. CASE SkipEntry
  <2>0. /\ command = "many" /\ Idle /\ files # <<>> /\ EndEntry(errors)
        /\ UNCHANGED <<command, exit, text, stack, module_cache, failed_modules, loads>>
    BY <1>2 DEF SkipEntry, verdicts
  <2>1. errors = {} BY <1>0, <2>0 DEF IdleOK
  <2>2. errors \in SUBSET Located /\ Attributed(errors) BY <2>1 DEF Attributed
  <2>3. stack' = <<>> BY <2>0 DEF Idle
  <2>4. module_cache' \subseteq Mods /\ failed_modules' \subseteq Mods
    BY <1>0, <2>0 DEF TypeOK
  <2> QED BY <2>0, <2>1, <2>2, <2>3, <2>4, EndEntryStep
<1>3. CASE StartEntry
  <2>0. /\ command = "many" /\ Idle /\ files # <<>> /\ Head(files) \in Mods
        /\ LoadModule(Head(files), "many", Head(files))
        /\ UNCHANGED <<cli, verdicts, errors>>
    BY <1>3 DEF StartEntry
  <2>1. stack = <<>> /\ flow = Running /\ current_source = NoSource
    BY <1>0, <2>0 DEF Idle, IdleOK
  <2>2. Head(files) = Where(current_source) BY <2>1 DEF Where
  <2>3. "many" \notin Nested BY DEF Nested
  <2> QED BY <2>0, <2>1, <2>2, <2>3, LoadStep
<1>4. CASE EntryOk
  <2>0. /\ stack # <<>> /\ flow = Running /\ Top.via = "many"
        /\ module_cache' = module_cache \cup {Top.mod} /\ stack' = Below
        /\ EndEntry(errors) /\ UNCHANGED <<command, exit, text, failed_modules, loads>>
    BY <1>4 DEF EntryOk, ExportsDone, InPhase
  <2>1. "many" \notin Nested BY DEF Nested
  <2>2. /\ Below = <<>> /\ Top.via = command /\ Top.mod \in Mods
        /\ files # <<>> /\ Head(files) \in Mods
    BY <2>0, <2>1, EndsFrame
  <2>3. module_cache' \subseteq Mods /\ failed_modules' \subseteq Mods
    BY <1>0, <2>0, <2>2 DEF TypeOK
  <2>4. errors \in SUBSET Located /\ Attributed(errors)
    BY <1>0 DEF TypeOK, AttributionRight, Attributed, Where
  <2> QED BY <2>0, <2>2, <2>3, <2>4, EndEntryStep
<1>5. CASE EntryFails
  <2> DEFINE d == IF \E l \in errors : l.error = flow.error
                     THEN errors ELSE errors \cup {Recorded(flow.error)}
  <2>0. /\ flow.is = "raised" /\ flow.call.via = "many" /\ EndEntry(d)
        /\ failed_modules' = failed_modules \cup {flow.call.mod}
        /\ UNCHANGED <<command, exit, text, stack, module_cache, loads>>
    BY <1>5 DEF EntryFails
  <2>1. "many" \notin Nested BY DEF Nested
  <2>2. /\ stack = <<>> /\ flow.call.via = command
        /\ flow.error \in Error /\ flow.error.at = Where(current_source)
        /\ flow.call.mod \in Mods /\ files # <<>> /\ Head(files) \in Mods
    BY <2>0, <2>1, EndsRaised
  <2>3. d \in SUBSET Located /\ Attributed(d) BY <2>2, RecordedOK DEF Attributed
  <2>4. module_cache' \subseteq Mods /\ failed_modules' \subseteq Mods
    BY <1>0, <2>0, <2>2 DEF TypeOK
  <2> HIDE DEF d
  <2> QED BY <2>0, <2>2, <2>3, <2>4, EndEntryStep
<1>6. CASE AllChecked
  <2>0. /\ command = "many" /\ Idle /\ exit' \in {"success", "failure"}
        /\ UNCHANGED <<command, files, failed, printed, text, stack, flow, visiting,
                       module_cache, failed_modules, current_source, errors, loads>>
    BY <1>6 DEF AllChecked, verdicts
  <2>1. stack' = <<>> /\ flow' = Running BY <2>0 DEF Idle
  <2>2. /\ visiting' \subseteq Mods /\ module_cache' \subseteq Mods
        /\ failed_modules' \subseteq Mods /\ files' \in Seq(Mods \cup {Foreign})
        /\ current_source' \in Mods \cup {NoSource}
        /\ errors' \subseteq Located /\ printed' \subseteq Located
        /\ exit' \in {"running", "success", "failure"} /\ failed' \in BOOLEAN
    BY <1>0, <2>0 DEF TypeOK
  <2>3. OneFileOK' /\ IdleOK' /\ AttributionRight'
    BY <1>0, <2>0 DEF OneFileOK, IdleOK, Idle, AttributionRight
  <2> QED BY <2>0, <2>1, <2>2, <2>3, EmptyStep
<1> QED BY <1>1, <1>2, <1>3, <1>4, <1>5, <1>6

LEMMA OneFile ==
    ASSUME TypeOK, OneFileOK, command # "many"
    PROVE  files # <<>> /\ Head(files) \in Mods
<1>1. files \in Seq(Mods \cup {Foreign}) /\ Len(files) = 1 /\ files[1] \in Mods
  BY DEF TypeOK, OneFileOK
<1>2. files # <<>> BY <1>1
<1>3. Head(files) = files[1] BY <1>1, <1>2
<1> QED BY <1>1, <1>2, <1>3

LEMMA ModuleOK ==
    ASSUME LoaderInv, StartModule \/ ModuleOk \/ ModuleFails
    PROVE  LoaderInv'
<1>0. TypeOK /\ IdleOK /\ OneFileOK BY DEF LoaderInv
<1>1. "module" \notin Nested BY DEF Nested
<1>2. CASE StartModule
  <2>0. /\ command = "module" /\ Idle
        /\ LoadModule(Head(files), "module", Head(files))
        /\ UNCHANGED <<cli, verdicts, errors>>
    BY <1>2 DEF StartModule
  <2>1. stack = <<>> /\ flow = Running /\ current_source = NoSource
    BY <1>0, <2>0 DEF Idle, IdleOK
  <2>2. files # <<>> /\ Head(files) \in Mods BY <1>0, <2>0, OneFile
  <2>3. Head(files) = Where(current_source) BY <2>1 DEF Where
  <2> QED BY <1>1, <2>0, <2>1, <2>2, <2>3, LoadStep
<1>3. CASE ModuleOk
  <2>0. stack # <<>> /\ flow = Running /\ flow.is # "raised" /\ Top.via = "module"
    BY <1>3 DEF ModuleOk, ExportsDone, InPhase, Running
  <2>1. Top.mod \in Mods /\ command = "module" /\ Head(files) \in Mods
    BY <1>1, <2>0, EndsFrame
  <2> DEFINE l == [error |-> ErrorHere("type", Top.mod), source |-> NoSource]
  <2>2. ErrorHere("type", Top.mod) \in Error BY <2>0, <2>1, HereOK
  <2>3. l \in Located BY <2>2 DEF Located
  <2>4. Exit("success", {}) \/ Exit("failure", {l}) BY <1>3 DEF ModuleOk
  <2> HIDE DEF l
  <2> QED BY <2>1, <2>3, <2>4, ExitStep
<1>4. CASE ModuleFails
  <2>0. flow.is = "raised" /\ flow.call.via = "module" BY <1>4 DEF ModuleFails
  <2>1. flow.error \in Error /\ command = "module" /\ Head(files) \in Mods
    BY <1>1, <2>0, EndsRaised
  <2> DEFINE l == [error |-> flow.error, source |-> NoSource]
  <2>2. l \in Located BY <2>1 DEF Located
  <2>3. Exit("failure", {l}) BY <1>4 DEF ModuleFails
  <2> HIDE DEF l
  <2> QED BY <2>1, <2>2, <2>3, ExitStep
<1> QED BY <1>2, <1>3, <1>4

LEMMA FileCommandOK ==
    ASSUME LoaderInv, StartFile \/ FileSyntaxError \/ FileFails \/ FileInferred
    PROVE  LoaderInv'
<1>0. TypeOK /\ IdleOK /\ OneFileOK /\ AttributionRight BY DEF LoaderInv
<1>1. "file" \notin Nested BY DEF Nested
<1>2. CASE StartFile
  <2> DEFINE m == Head(files)
             f == [mod |-> m, via |-> "file", prev |-> NoSource,
                   phase |-> "imports", next |-> 1]
  <2>0. /\ command = "file" /\ Idle /\ stack' = <<f>>
        /\ UNCHANGED <<cli, flow, visiting, verdicts, current_source, errors, loads>>
    BY <1>2 DEF StartFile
  <2>1. PICK t \in Programs : text' = [text EXCEPT ![m] = t] BY <1>2 DEF StartFile
  <2>2. files # <<>> /\ m \in Mods BY <1>0, <2>0, OneFile
  <2>3. stack = <<>> /\ flow = Running /\ current_source = NoSource /\ errors = {}
    BY <1>0, <2>0 DEF Idle, IdleOK
  <2> HIDE DEF m
  <2>4. /\ f \in Frame /\ f.mod = m /\ f.via = "file" /\ f.phase = "imports"
        /\ f.next = 1
    BY <2>2 DEF Frame
  <2> HIDE DEF f
  <2>5. /\ stack' \in Seq(Frame) /\ Len(stack') = 1 /\ DOMAIN stack' = {1}
        /\ stack'[1] = f /\ stack' # <<>> /\ Top' = f
    BY <2>0, <2>4 DEF Top
  <2>6. /\ text' \in [Mods -> Texts \cup {Unread}] /\ text'[m] = t
        /\ t.is = "program" /\ t.imports \in Seq(Mods \cup {NoFile})
    <3>1. t \in Texts /\ t.is = "program" BY DEF Texts, Programs
    <3>2. text \in [Mods -> Texts \cup {Unread}] BY <1>0 DEF TypeOK
    <3>3. text' \in [Mods -> Texts \cup {Unread}] /\ text'[m] = t
      BY <2>1, <2>2, <3>1, <3>2
    <3> QED BY <3>1, <3>3, ProgramClauses
  <2>7. flow' = Running /\ flow'.is = "running" /\ flow' # Returned
    BY <2>0, <2>3 DEF Running, Returned
  <2>8. TypeOK'
    <3>1. 1 <= Len(t.imports) + 1 BY <2>6
    <3>2. (\A i \in DOMAIN stack :
             /\ text[stack[i].mod].is = "program"
             /\ stack[i].next <= Len(Clauses(stack[i])) + 1
             /\ (i < Len(stack) \/ flow # Running) =>
                   stack[i].next <= Len(Clauses(stack[i])))'
      BY <2>4, <2>5, <2>6, <2>7, <3>1 DEF Clauses
    <3> QED BY <1>0, <2>0, <2>5, <2>6, <2>7, <3>2 DEF TypeOK, cli, verdicts
  <2>9. FramesOK' BY <1>1, <2>0, <2>4, <2>5 DEF FramesOK, cli, m
  <2>10. IdleOK' /\ FileOK' BY <2>0, <2>2, <2>5 DEF IdleOK, Idle, FileOK, cli, m
  <2>11. FlowOK' /\ RaisedOK'
    BY <2>0, <2>3, <2>4, <2>5, <2>7 DEF FlowOK, RaisedOK, Src
  <2>12. OneFileOK' /\ NoReentry' /\ AttributionRight'
    BY <1>0, <2>0, <2>5 DEF OneFileOK, NoReentry, AttributionRight, cli
  <2> QED BY <2>8, <2>9, <2>10, <2>11, <2>12 DEF LoaderInv
<1>3. CASE FileSyntaxError
  <2> DEFINE e == [kind |-> "syntax", at |-> Head(files), to |-> Head(files)]
             l == [error |-> e, source |-> NoSource]
  <2>0. command = "file" /\ Exit("failure", {l}) BY <1>3 DEF FileSyntaxError
  <2>1. Head(files) \in Mods BY <1>0, <2>0, OneFile
  <2>2. e \in Error /\ e.at = Head(files) BY <2>1 DEF Error
  <2> HIDE DEF e
  <2>3. l \in Located /\ l.error = e /\ l.source = NoSource BY <2>2 DEF Located
  <2> HIDE DEF l
  <2>4. Attributed({l}) BY <2>2, <2>3 DEF Attributed, Where
  <2> QED BY <2>0, <2>1, <2>3, <2>4, ExitStep
<1>4. CASE FileFails
  <2>0. flow.is = "raised" /\ flow.call.via = "file"
        /\ Exit("failure", {Recorded(flow.error)})
    BY <1>4 DEF FileFails
  <2>1. flow.error \in Error /\ flow.error.at = Where(current_source)
        /\ Head(files) \in Mods
    BY <1>1, <2>0, EndsRaised
  <2>2. {Recorded(flow.error)} \subseteq Located /\ Attributed({Recorded(flow.error)})
    BY <2>1, RecordedOK
  <2> QED BY <2>0, <2>1, <2>2, ExitStep
<1>5. CASE FileInferred
  <2> DEFINE e == ErrorHere("type", Top.mod)
             l == [error |-> e, source |-> NoSource]
  <2>0. /\ stack # <<>> /\ flow = Running /\ flow.is # "raised" /\ Top.via = "file"
        /\ \/ Exit("success", {}) \/ Exit("failure", errors)
           \/ Exit("failure", errors \cup {l})
    BY <1>5 DEF FileInferred, ImportsBound, InPhase, Running
  <2>1. Top.mod \in Mods /\ Top.mod = Head(files) BY <1>1, <2>0, EndsFrame
  <2>2. e \in Error /\ e.at = Top.mod BY <2>0, <2>1, HereOK DEF ErrorHere
  <2> HIDE DEF e
  <2>3. l \in Located /\ l.error = e /\ l.source = NoSource BY <2>2 DEF Located
  <2> HIDE DEF l
  <2>4. errors \subseteq Located /\ Attributed(errors)
    BY <1>0 DEF TypeOK, AttributionRight, Attributed, Where
  <2>5. errors \cup {l} \subseteq Located /\ Attributed(errors \cup {l})
    BY <2>1, <2>2, <2>3, <2>4 DEF Attributed, Where
  <2>6. Attributed({}) BY DEF Attributed
  <2>7. CASE Exit("success", {}) BY <2>1, <2>6, <2>7, ExitStep
  <2>8. CASE Exit("failure", errors) BY <2>1, <2>4, <2>8, ExitStep
  <2>9. CASE Exit("failure", errors \cup {l}) BY <2>1, <2>5, <2>9, ExitStep
  <2> QED BY <2>0, <2>7, <2>8, <2>9
<1> QED BY <1>2, <1>3, <1>4, <1>5

LEMMA StutterOK ==
    ASSUME LoaderInv, UNCHANGED vars
    PROVE  LoaderInv'
<1> USE DEF vars, cli, verdicts
<1>1. TypeOK' BY DEF LoaderInv, TypeOK, Clauses
<1>2. FramesOK' /\ IdleOK' /\ FileOK'
  BY DEF LoaderInv, FramesOK, IdleOK, FileOK, Src, Idle
<1>3. FlowOK' /\ RaisedOK' BY DEF LoaderInv, FlowOK, RaisedOK, Src, Top, Where
<1>4. OneFileOK' /\ NoReentry' /\ AttributionRight'
  BY DEF LoaderInv, OneFileOK, NoReentry, AttributionRight
<1> QED BY <1>1, <1>2, <1>3, <1>4 DEF LoaderInv

(* Every step of the loader and of the commands keeps the invariant. *)
THEOREM Inductive == LoaderInv /\ [Next]_vars => LoaderInv'
<1> SUFFICES ASSUME LoaderInv, [Next]_vars PROVE LoaderInv' OBVIOUS
<1>1. CASE ResolveImports BY <1>1, ImportsOK
<1>2. CASE InferOk \/ InferFails BY <1>2, InferOK
<1>3. CASE ComputeExportTable BY <1>3, ExportsOK
<1>4. CASE ReturnModule BY <1>4, ReturnStep
<1>5. CASE Commands BY <1>5, ManyOK, ModuleOK, FileCommandOK DEF Commands
<1>6. CASE UNCHANGED vars BY <1>6, StutterOK
<1> QED BY <1>1, <1>2, <1>3, <1>4, <1>5, <1>6 DEF Next

(* The loader's variables keep their types, and every frame stands at a    *)
(* clause of its module (load_module, resolve_imports,                     *)
(* compute_export_table).                                                  *)
THEOREM TypeCorrect == Spec => []TypeOK
<1>1. LoaderInv => TypeOK BY DEF LoaderInv
<1> QED BY <1>1, InitOK, Inductive, PTL DEF Spec

(* For every import graph, no module is loaded from inside its own load:   *)
(* the visiting set of resolve_imports and compute_export_table is enough  *)
(* to keep load_module from recursing for ever, although failures leave    *)
(* modules behind in it.                                                   *)
THEOREM NeverReentered == Spec => []NoReentry
<1>1. LoaderInv => NoReentry BY DEF LoaderInv
<1> QED BY <1>1, InitOK, Inductive, PTL DEF Spec

(* For every import graph and wherever in it something fails, an error is  *)
(* recorded, and by `inty a.js` and `inty a.js b.js` shown, in the file    *)
(* its span points into (push_error, set_current_source).                  *)
THEOREM ErrorsAttributed == Spec => []AttributionRight
<1>1. LoaderInv => AttributionRight BY DEF LoaderInv
<1> QED BY <1>1, InitOK, Inductive, PTL DEF Spec

(* A module in the cache is never read again, and one that failed only for *)
(* a re-export (check_entry, resolve_imports, load_imported).              *)
THEOREM NotRechecked == Spec => RecheckedOnlyByReexport
<1> DEFINE A == \A m \in Mods : loads'[m] # loads[m] =>
                  /\ m \notin module_cache
                  /\ m \in failed_modules => stack # <<>> /\ Top.phase = "exports"
<1>1. ASSUME LoaderInv, Next PROVE A
  <2> SUFFICES ASSUME NEW m \in Mods, loads'[m] # loads[m]
               PROVE  /\ m \notin module_cache
                      /\ m \in failed_modules => stack # <<>> /\ Top.phase = "exports"
    OBVIOUS
  <2>0. loads \in [Mods -> Nat] BY <1>1 DEF LoaderInv, TypeOK
  <2>1. ASSUME NEW k \in Mods, NEW via, NEW asker, LoadModule(k, via, asker)
        PROVE  k = m
    BY <2>0, <2>1 DEF LoadModule
  <2>2. CASE ImportLoad
    <3>1. Clause \in Mods /\ Clause \notin failed_modules /\ LoadImported(Clause, "import")
      BY <2>2 DEF ImportLoad
    <3>2. Clause \notin module_cache /\ LoadModule(Clause, "import", Top.mod)
      BY <3>1 DEF LoadImported
    <3>3. Clause = m BY <2>1, <3>1, <3>2
    <3> QED BY <3>1, <3>2, <3>3
  <2>3. CASE ReexportLoad
    <3>1. /\ Clause \in Mods /\ LoadImported(Clause, "reexport")
          /\ stack # <<>> /\ Top.phase = "exports"
      BY <2>3 DEF ReexportLoad, AtClause, InPhase
    <3>2. Clause \notin module_cache /\ LoadModule(Clause, "reexport", Top.mod)
      BY <3>1 DEF LoadImported
    <3>3. Clause = m BY <2>1, <3>1, <3>2
    <3> QED BY <3>1, <3>2, <3>3
  <2>4. CASE StartEntry
    <3>1. Head(files) = m BY <2>1, <2>4 DEF StartEntry
    <3> QED BY <2>4, <3>1 DEF StartEntry
  <2>5. CASE StartModule
    <3>1. module_cache = {} /\ failed_modules = {}
      BY <1>1, <2>5 DEF StartModule, LoaderInv, IdleOK
    <3> QED BY <3>1
  <2>6. loads' = loads \/ ImportLoad \/ ReexportLoad \/ StartEntry \/ StartModule
    BY <1>1 DEF Next, ResolveImports, ComputeExportTable, Commands,
       ImportUnresolved, ImportCircular, ImportFailed, BindNames, CatchImport,
       InferOk, InferFails, ReexportUnresolved, ReexportCircular,
       PropagateReexport, ReturnModule, ForeignEntry, SkipEntry, EntryOk,
       EntryFails, AllChecked, ModuleOk, ModuleFails, StartFile,
       FileSyntaxError, FileFails, FileInferred, Exit
  <2> QED BY <2>2, <2>3, <2>4, <2>5, <2>6
<1>2. LoaderInv /\ [Next]_vars => [A]_vars BY <1>1
<1> QED BY <1>2, InitOK, Inductive, PTL DEF Spec, RecheckedOnlyByReexport
=============================================================================
