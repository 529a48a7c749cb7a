-------------------------- MODULE LspServerProofs --------------------------
(***************************************************************************)
(* Proofs about the language server, for any documents, texts and number   *)
(* of messages: what is answered and shown is what the editor's buffers    *)
(* deserve, although each side runs ahead of the other.                    *)
(*                                                                         *)
(* The two channels are first in, first out, so what a document or a list  *)
(* of diagnostics will be once the first n messages under way have been    *)
(* taken is decided by the last of them that is about the document.        *)
(***************************************************************************)
EXTENDS LspServer, SequenceTheorems, TLAPS

-----------------------------------------------------------------------------
(* What a queue of messages amounts to.                                    *)

(* The message gives u a new text, or new diagnostics. *)
Carries(m, u) ==
    /\ m.op \in {"didOpen", "didChange", "didClose", "publishDiagnostics"}
    /\ m.uri = u
    /\ m.op = "didChange" => m.changes # <<>>

Given(m) ==
    CASE m.op = "didOpen"   -> m.text
      [] m.op = "didChange" -> m.changes[Len(m.changes)]
      [] m.op = "didClose"  -> Closed
      [] m.op = "publishDiagnostics" -> m.diagnostics

Updated(m, u, old) == IF Carries(m, u) THEN Given(m) ELSE old

(* Once the first n messages of q are taken, what was `old` for u is t. *)
Delivers(q, n, u, old, t) ==
    \/ t = old /\ \A k \in 1 .. n : ~Carries(q[k], u)
    \/ \E j \in 1 .. n : /\ Carries(q[j], u) /\ t = Given(q[j])
                         /\ \A k \in j + 1 .. n : ~Carries(q[k], u)

LEMMA DeliversNothing ==
    ASSUME NEW q, NEW u, NEW old, NEW t
    PROVE  Delivers(q, 0, u, old, t) <=> t = old
BY DEF Delivers

(* A message at the end of the queue changes nothing before it, and        *)
(* decides what comes of the whole.                                        *)
LEMMA DeliversAppended ==
    ASSUME NEW M, NEW q \in Seq(M), NEW m \in M, NEW n \in 0 .. Len(q),
           NEW u, NEW old, NEW t, Delivers(q, n, u, old, t)
    PROVE  /\ Delivers(Append(q, m), n, u, old, t)
           /\ n = Len(q) => Delivers(Append(q, m), n + 1, u, old, Updated(m, u, t))
<1> DEFINE q2 == Append(q, m)
<1>1. /\ \A k \in 1 .. n : q2[k] = q[k]
      /\ Len(q) \in Nat /\ q2[Len(q) + 1] = m
  OBVIOUS
<1> HIDE DEF q2
<1>2. \A j \in 1 .. n : \A k \in j + 1 .. n : k \in 1 .. n OBVIOUS
<1>3. Delivers(q2, n, u, old, t) BY <1>1, <1>2 DEF Delivers
<1>4. ASSUME n = Len(q) PROVE Delivers(q2, n + 1, u, old, Updated(m, u, t))
  <2>1. CASE Carries(m, u)
    <3>1. n + 1 \in 1 .. n + 1 /\ \A k \in n + 1 + 1 .. n + 1 : FALSE BY <1>1, <1>4
    <3> QED BY <1>1, <1>4, <2>1, <3>1 DEF Delivers, Updated
  <2>2. CASE ~Carries(m, u)
    <3>1. CASE t = old /\ \A k \in 1 .. n : ~Carries(q[k], u)
      <4>1. ASSUME NEW k \in 1 .. n + 1 PROVE ~Carries(q2[k], u)
        <5>1. k \in 1 .. n \/ k = n + 1 OBVIOUS
        <5> QED BY <1>1, <1>4, <2>2, <3>1, <5>1
      <4> QED BY <2>2, <3>1, <4>1 DEF Delivers, Updated
    <3>2. ASSUME NEW j \in 1 .. n, Carries(q[j], u), t = Given(q[j]),
                 \A k \in j + 1 .. n : ~Carries(q[k], u)
          PROVE  Delivers(q2, n + 1, u, old, Updated(m, u, t))
      <4>1. ASSUME NEW k \in j + 1 .. n + 1 PROVE ~Carries(q2[k], u)
        <5>1. (k \in j + 1 .. n /\ k \in 1 .. n) \/ k = n + 1 OBVIOUS
        <5> QED BY <1>1, <1>4, <2>2, <3>2, <5>1
      <4>2. j \in 1 .. n + 1 /\ q2[j] = q[j] BY <1>1
      <4> QED BY <2>2, <3>2, <4>1, <4>2 DEF Delivers, Updated
    <3> QED BY <3>1, <3>2 DEF Delivers
  <2> QED BY <2>1, <2>2
<1> QED BY <1>3, <1>4 DEF q2

(* Taking the first message applies it. *)
LEMMA DeliversTaken ==
    ASSUME NEW M, NEW q \in Seq(M), q # <<>>, NEW n \in 1 .. Len(q),
           NEW u, NEW old, NEW t, Delivers(q, n, u, old, t)
    PROVE  Delivers(Tail(q), n - 1, u, Updated(Head(q), u, old), t)
<1> DEFINE r == Tail(q)
<1>1. /\ Len(q) \in Nat /\ q[1] = Head(q) /\ n \in Nat
      /\ \A k \in 1 .. n - 1 : r[k] = q[k + 1] /\ k + 1 \in 1 .. n
  OBVIOUS
<1> HIDE DEF r
<1>2. CASE t = old /\ \A k \in 1 .. n : ~Carries(q[k], u)
  <2>1. 1 \in 1 .. n OBVIOUS
  <2>2. Updated(Head(q), u, old) = old BY <1>1, <1>2, <2>1 DEF Updated
  <2> QED BY <1>1, <1>2, <2>2 DEF Delivers, r
<1>3. ASSUME NEW j \in 1 .. n, Carries(q[j], u), t = Given(q[j]),
             \A k \in j + 1 .. n : ~Carries(q[k], u)
      PROVE  Delivers(r, n - 1, u, Updated(Head(q), u, old), t)
  <2>1. CASE j = 1
    <3>1. Updated(Head(q), u, old) = t BY <1>1, <1>3, <2>1 DEF Updated
    <3>2. ASSUME NEW k \in 1 .. n - 1 PROVE ~Carries(r[k], u)
      <4>1. k + 1 \in j + 1 .. n BY <2>1
      <4> QED BY <1>1, <1>3, <4>1
    <3> QED BY <3>1, <3>2 DEF Delivers
  <2>2. CASE j # 1
    <3>1. j - 1 \in 1 .. n - 1 /\ (j - 1) + 1 = j BY <2>2
    <3>2. r[j - 1] = q[j] BY <1>1, <3>1
    <3>3. ASSUME NEW k \in (j - 1) + 1 .. n - 1 PROVE ~Carries(r[k], u)
      <4>1. k + 1 \in j + 1 .. n /\ k \in 1 .. n - 1 BY <3>1
      <4> QED BY <1>1, <1>3, <4>1
    <3> QED BY <1>3, <3>1, <3>2, <3>3 DEF Delivers
  <2> QED BY <2>1, <2>2
<1> QED BY <1>2, <1>3 DEF Delivers, r

-----------------------------------------------------------------------------
(* The inductive invariant.                                                *)

Docs == {d \in [Uris -> Texts \cup {Closed}] :
            \A u \in Uris : d[u] \in TextsOf[u] \cup {Closed}}

Bound == UNION {Bindings(t) : t \in Texts}

Requests ==
    [op: {"initialize", "shutdown", "unknown", "malformed"}] \cup
    [op: {"query"}, uri: Uris] \cup
    [op: {"rename"}, uri: Uris, at: Bound, new: NewNames \cup {BadName}]

ToServer ==
    {m \in [op: {"request"}, id: Nat, req: Requests] \cup
           [op: {"initialized", "exit"}] \cup
           [op: {"didOpen"}, uri: Uris, text: Texts] \cup
           [op: {"didChange"}, uri: Uris, changes: Seq(Texts)] \cup
           [op: {"didSave", "didClose"}, uri: Uris] :
        \A u \in Uris : Carries(m, u) => Given(m) \in TextsOf[u] \cup {Closed}}

ToClient ==
    {m \in [op: {"response"}, id: Nat, result: {Answer(d, r) : d \in Docs, r \in Requests}]
           \cup [op: {"publishDiagnostics"}, uri: Uris, diagnostics: SUBSET Texts] :
        \A u \in Uris : Carries(m, u) => Given(m) \subseteq TextsOf[u]}

Shapes ==
    /\ editor \in {"new", "starting", "ready", "quitting", "gone"}
    /\ server \in {"waiting", "finishing", "running", "leaving", "stopped", "failed"}
    /\ buffer \in Docs /\ documents \in Docs /\ sent \in 0 .. MaxSends
    /\ shown \in [Uris -> SUBSET Texts] /\ \A u \in Uris : shown[u] \subseteq TextsOf[u]
    /\ to_server \in Seq(ToServer) /\ to_client \in Seq(ToClient)
    /\ \A a \in asked : a.id \in 0 .. sent - 1 /\ a.req \in Requests /\ a.basis \in Docs

(* An id is used once, and stands for its request until it is answered. *)
IdsOK ==
    /\ \A i \in DOMAIN to_server : to_server[i].op = "request" => to_server[i].id < sent
    /\ \A i \in DOMAIN to_client : to_client[i].op = "response" => to_client[i].id < sent
    /\ \A a, b \in asked : a.id = b.id => a = b
    /\ \A i, j \in DOMAIN to_server :
          /\ to_server[i].op = "request" /\ to_server[j].op = "request"
          /\ to_server[i].id = to_server[j].id
          => i = j
    /\ \A i, j \in DOMAIN to_client :
          /\ to_client[i].op = "response" /\ to_client[j].op = "response"
          /\ to_client[i].id = to_client[j].id
          => i = j
    /\ \A i \in DOMAIN to_server, j \in DOMAIN to_client :
          to_server[i].op = "request" /\ to_client[j].op = "response" =>
             to_server[i].id # to_client[j].id

(* Once the server has taken what is under way, it has the buffers. *)
BuffersComing ==
    \A u \in Uris : Delivers(to_server, Len(to_server), u, documents[u], buffer[u])

(* When the server comes to a request, it has the buffers it was asked of. *)
RequestsInPlace ==
    \A i \in DOMAIN to_server : to_server[i].op = "request" =>
        \E a \in asked :
            /\ a.id = to_server[i].id /\ a.req = to_server[i].req
            /\ \A u \in Uris : Delivers(to_server, i - 1, u, documents[u], a.basis[u])

(* Once the editor has taken what is under way, it shows the documents'.  *)
DiagnosticsComing ==
    \A u \in Uris :
        Delivers(to_client, Len(to_client), u, shown[u], Diagnostics(documents[u]))

LspInv ==
    /\ Shapes /\ IdsOK /\ BuffersComing /\ RequestsInPlace /\ DiagnosticsComing
    /\ AnswersWhatWasAsked

-----------------------------------------------------------------------------
(* The editor sends.                                                       *)

LEMMA PostStep ==
    ASSUME LspInv, NEW m \in ToServer, to_server' = Append(to_server, m),
           UNCHANGED <<shown, to_client, server, documents>>,
           editor' \in {"new", "starting", "ready", "quitting", "gone"},
           sent' \in 0 .. MaxSends, sent <= sent', buffer' \in Docs,
           \A u \in Uris : buffer'[u] = Updated(m, u, buffer[u]),
           \/ m.op # "request" /\ asked' = asked
           \/ /\ m.op = "request" /\ m.id = sent /\ m.req \in Requests /\ sent' = sent + 1
              /\ asked' = asked \cup {[id |-> sent, req |-> m.req, basis |-> buffer]}
    PROVE  LspInv'
<1> DEFINE n == Len(to_server)
<1>1. /\ Shapes /\ IdsOK /\ BuffersComing /\ RequestsInPlace /\ DiagnosticsComing
      /\ AnswersWhatWasAsked
  BY DEF LspInv
<1>2. /\ to_server \in Seq(ToServer) /\ to_client \in Seq(ToClient)
      /\ n \in Nat /\ sent \in Nat /\ sent' \in Nat
  BY <1>1, LspAssumption DEF Shapes
<1>3. /\ to_server' \in Seq(ToServer) /\ Len(to_server') = n + 1
      /\ to_server'[n + 1] = m /\ \A i \in 1 .. n : to_server'[i] = to_server[i]
      /\ DOMAIN to_server = 1 .. n /\ DOMAIN to_server' = 1 .. n + 1
  BY <1>2
<1>4. asked \subseteq asked' OBVIOUS
<1> HIDE DEF n
<1>5. Shapes'
  <2>1. (\A a \in asked : a.id \in 0 .. sent - 1 /\ a.req \in Requests /\ a.basis \in Docs)'
    <3> SUFFICES ASSUME NEW a \in asked'
                 PROVE  a.id \in 0 .. sent' - 1 /\ a.req \in Requests /\ a.basis \in Docs
      OBVIOUS
    <3>1. CASE a \in asked BY <1>1, <1>2, <3>1 DEF Shapes
    <3>2. CASE /\ a = [id |-> sent, req |-> m.req, basis |-> buffer]
               /\ m.req \in Requests /\ sent' = sent + 1
      BY <1>1, <1>2, <3>2 DEF Shapes
    <3> QED BY <3>1, <3>2
  <2> QED BY <1>1, <1>3, <2>1 DEF Shapes
<1>6. IdsOK'
  <2>1. \A i \in 1 .. n : to_server[i].op = "request" =>
           to_server[i].id \in Nat /\ to_server[i].id < sent
    <3> SUFFICES ASSUME NEW i \in 1 .. n, to_server[i].op = "request"
                 PROVE  to_server[i].id \in Nat /\ to_server[i].id < sent
      OBVIOUS
    <3>1. to_server[i] \in ToServer BY <1>2, <1>3
    <3>2. to_server[i].id \in Nat BY <3>1 DEF ToServer
    <3> QED BY <1>1, <1>3, <3>2 DEF IdsOK
  <2>2. ASSUME NEW i \in 1 .. n + 1, to_server'[i].op = "request"
        PROVE  \/ /\ i \in 1 .. n /\ to_server'[i] = to_server[i]
                  /\ to_server[i].id \in Nat /\ to_server[i].id < sent
               \/ i = n + 1 /\ to_server'[i].id = sent /\ sent' = sent + 1
    <3>1. i \in 1 .. n \/ i = n + 1 BY <1>2
    <3> QED BY <1>3, <2>1, <2>2, <3>1
  <2>3. \A i \in DOMAIN to_server' : to_server'[i].op = "request" => to_server'[i].id < sent'
    BY <1>2, <1>3, <2>2
  <2>4. \A i \in DOMAIN to_client : to_client[i].op = "response" =>
           to_client[i].id < sent /\ to_client[i].id < sent'
    <3> SUFFICES ASSUME NEW i \in DOMAIN to_client, to_client[i].op = "response"
                 PROVE  to_client[i].id < sent /\ to_client[i].id < sent'
      OBVIOUS
    <3>1. to_client[i].id < sent BY <1>1 DEF IdsOK
    <3>2. to_client[i].id \in Nat BY <1>2 DEF ToClient
    <3> QED BY <1>2, <3>1, <3>2
  <2>5. \A a, b \in asked' : a.id = b.id => a = b
    <3> SUFFICES ASSUME NEW a \in asked', NEW b \in asked', a.id = b.id PROVE a = b
      OBVIOUS
    <3>1. \A c \in asked : c.id # sent BY <1>1, <1>2 DEF Shapes
    <3>2. \A c \in asked' \ asked : c = [id |-> sent, req |-> m.req, basis |-> buffer]
      OBVIOUS
    <3>3. \A c \in asked' \ asked : c.id = sent BY <3>2
    <3> QED BY <1>1, <3>1, <3>2, <3>3 DEF IdsOK
  <2>6. \A i, j \in DOMAIN to_server' :
          /\ to_server'[i].op = "request" /\ to_server'[j].op = "request"
          /\ to_server'[i].id = to_server'[j].id
          => i = j
    <3> SUFFICES ASSUME NEW i \in 1 .. n + 1, NEW j \in 1 .. n + 1,
                        to_server'[i].op = "request", to_server'[j].op = "request",
                        to_server'[i].id = to_server'[j].id
                 PROVE  i = j
      BY <1>3
    <3> QED BY <1>1, <1>2, <1>3, <2>2 DEF IdsOK
  <2>7. \A i \in DOMAIN to_server', j \in DOMAIN to_client :
          to_server'[i].op = "request" /\ to_client[j].op = "response" =>
             to_server'[i].id # to_client[j].id
    <3> SUFFICES ASSUME NEW i \in 1 .. n + 1, NEW j \in DOMAIN to_client,
                        to_server'[i].op = "request", to_client[j].op = "response",
                        to_server'[i].id = to_client[j].id
                 PROVE  FALSE
      BY <1>3
    <3>1. to_client[j].id < sent BY <2>4
    <3> QED BY <1>1, <1>2, <1>3, <2>2, <3>1 DEF IdsOK
  <2> QED BY <1>1, <2>3, <2>4, <2>5, <2>6, <2>7 DEF IdsOK
<1>7. BuffersComing'
  <2> SUFFICES ASSUME NEW u \in Uris
               PROVE  Delivers(to_server', n + 1, u, documents[u], buffer'[u])
    BY <1>3 DEF BuffersComing
  <2>1. Delivers(to_server, n, u, documents[u], buffer[u])
    BY <1>1 DEF BuffersComing, n
  <2> QED BY <1>2, <2>1, DeliversAppended DEF n
<1>8. RequestsInPlace'
  <2> SUFFICES ASSUME NEW i \in 1 .. n + 1, to_server'[i].op = "request"
               PROVE  \E a \in asked' :
                         /\ a.id = to_server'[i].id /\ a.req = to_server'[i].req
                         /\ \A u \in Uris :
                               Delivers(to_server', i - 1, u, documents[u], a.basis[u])
    BY <1>3 DEF RequestsInPlace
  <2>1. CASE i \in 1 .. n
    <3>1. PICK a \in asked :
             /\ a.id = to_server[i].id /\ a.req = to_server[i].req
             /\ \A u \in Uris : Delivers(to_server, i - 1, u, documents[u], a.basis[u])
      BY <1>1, <1>3, <2>1 DEF RequestsInPlace
    <3>2. i - 1 \in 0 .. Len(to_server) BY <1>2, <2>1 DEF n
    <3>3. \A u \in Uris : Delivers(to_server', i - 1, u, documents[u], a.basis[u])
      BY <1>2, <3>1, <3>2, DeliversAppended
    <3> QED BY <1>3, <1>4, <2>1, <3>1, <3>3
  <2>2. CASE i = n + 1
    <3>1. PICK a \in asked' : a = [id |-> sent, req |-> m.req, basis |-> buffer]
      <4>1. m.op = "request" BY <1>3, <2>2
      <4> QED BY <4>1
    <3>2. a.id = sent /\ a.req = m.req /\ a.basis = buffer BY <3>1
    <3>3. ASSUME NEW u \in Uris
          PROVE  Delivers(to_server', n, u, documents[u], buffer[u])
      <4>1. Delivers(to_server, n, u, documents[u], buffer[u])
        BY <1>1 DEF BuffersComing, n
      <4>2. n \in 0 .. Len(to_server) BY <1>2 DEF n
      <4> QED BY <1>2, <4>1, <4>2, DeliversAppended
    <3>4. i - 1 = n /\ m.id = sent BY <1>2, <1>3, <2>2
    <3>5. to_server'[i] = m /\ m.op = "request" BY <1>3, <2>2
    <3>6. a.id = to_server'[i].id /\ a.req = to_server'[i].req
      BY <3>2, <3>4, <3>5
    <3>7. ASSUME NEW u \in Uris
          PROVE  Delivers(to_server', i - 1, u, documents[u], a.basis[u])
      BY <3>2, <3>3, <3>4
    <3> QED BY <3>1, <3>6, <3>7
  <2>3. i \in 1 .. n \/ i = n + 1 BY <1>2
  <2> QED BY <2>1, <2>2, <2>3
<1>9. DiagnosticsComing' BY <1>1 DEF DiagnosticsComing
<1>10. AnswersWhatWasAsked' BY <1>1, <1>4 DEF AnswersWhatWasAsked
<1> QED BY <1>5, <1>6, <1>7, <1>8, <1>9, <1>10 DEF LspInv

-----------------------------------------------------------------------------
(* The server takes a message, and may send one.                           *)

(* What is under way to the server after its first message was taken.      *)
LEMMA TakenFromQueue ==
    ASSUME NEW M, NEW q \in Seq(M), q # <<>>
    PROVE  /\ Tail(q) \in Seq(M) /\ Len(q) \in Nat \ {0} /\ Len(Tail(q)) = Len(q) - 1
           /\ DOMAIN q = 1 .. Len(q) /\ DOMAIN Tail(q) = 1 .. Len(q) - 1
           /\ Head(q) = q[1] /\ Head(q) \in M /\ 1 \in DOMAIN q
           /\ \A i \in 1 .. Len(q) - 1 : Tail(q)[i] = q[i + 1] /\ i + 1 \in DOMAIN q
<1>1. Len(q) \in Nat /\ DOMAIN q = 1 .. Len(q) OBVIOUS
<1>2. Len(q) # 0 OBVIOUS
<1>3. /\ Tail(q) \in Seq(M) /\ Len(Tail(q)) = Len(q) - 1 /\ Head(q) = q[1]
      /\ \A i \in 1 .. Len(q) - 1 : Tail(q)[i] = q[i + 1]
  OBVIOUS
<1> QED BY <1>1, <1>2, <1>3

LEMMA AppendedToQueue ==
    ASSUME NEW M, NEW q \in Seq(M), NEW m \in M
    PROVE  /\ Append(q, m) \in Seq(M) /\ Len(q) \in Nat
           /\ Len(Append(q, m)) = Len(q) + 1
           /\ DOMAIN q = 1 .. Len(q) /\ DOMAIN Append(q, m) = 1 .. Len(q) + 1
           /\ Append(q, m)[Len(q) + 1] = m
           /\ \A i \in 1 .. Len(q) : Append(q, m)[i] = q[i]
           /\ \A i \in 1 .. Len(q) + 1 : i \in 1 .. Len(q) \/ i = Len(q) + 1
OBVIOUS

LEMMA HandleQueue ==
    ASSUME LspInv, to_server # <<>>, to_server' = Tail(to_server),
           UNCHANGED <<asked, buffer>>,
           \A u \in Uris : documents'[u] = Updated(Message, u, documents[u])
    PROVE  BuffersComing' /\ RequestsInPlace'
<1> DEFINE n == Len(to_server)
<1>1. Shapes /\ BuffersComing /\ RequestsInPlace BY DEF LspInv
<1>2. to_server \in Seq(ToServer) BY <1>1 DEF Shapes
<1>3. /\ n \in Nat \ {0} /\ Len(to_server') = n - 1 /\ DOMAIN to_server = 1 .. n
      /\ DOMAIN to_server' = 1 .. n - 1
      /\ \A i \in 1 .. n - 1 : to_server'[i] = to_server[i + 1] /\ i + 1 \in 1 .. n
  BY <1>2, TakenFromQueue
<1> HIDE DEF n
<1>4. ASSUME NEW u \in Uris, NEW k \in 1 .. n, NEW t,
             Delivers(to_server, k, u, documents[u], t)
      PROVE  Delivers(to_server', k - 1, u, documents'[u], t)
  <2>1. k \in 1 .. Len(to_server) BY DEF n
  <2> QED BY <1>2, <1>4, <2>1, DeliversTaken DEF Message
<1>5. BuffersComing'
  <2> SUFFICES ASSUME NEW u \in Uris
               PROVE  Delivers(to_server', n - 1, u, documents'[u], buffer[u])
    BY <1>3 DEF BuffersComing
  <2>1. Delivers(to_server, n, u, documents[u], buffer[u])
    BY <1>1 DEF BuffersComing, n
  <2>2. n \in 1 .. n BY <1>3
  <2> QED BY <1>4, <2>1, <2>2
<1>6. RequestsInPlace'
  <2> SUFFICES ASSUME NEW i \in 1 .. n - 1, to_server'[i].op = "request"
               PROVE  \E a \in asked :
                         /\ a.id = to_server'[i].id /\ a.req = to_server'[i].req
                         /\ \A u \in Uris :
                               Delivers(to_server', i - 1, u, documents'[u], a.basis[u])
    BY <1>3 DEF RequestsInPlace
  <2>1. i + 1 \in 1 .. n /\ to_server'[i] = to_server[i + 1] /\ (i + 1) - 1 = i
    BY <1>3
  <2>2. PICK a \in asked :
           /\ a.id = to_server[i + 1].id /\ a.req = to_server[i + 1].req
           /\ \A u \in Uris :
                 Delivers(to_server, (i + 1) - 1, u, documents[u], a.basis[u])
    BY <1>1, <1>3, <2>1 DEF RequestsInPlace
  <2>3. i \in 1 .. n BY <1>3
  <2>4. \A u \in Uris : Delivers(to_server', i - 1, u, documents'[u], a.basis[u])
    BY <1>4, <2>1, <2>2, <2>3
  <2> QED BY <2>1, <2>2, <2>4
<1> QED BY <1>5, <1>6

(* A request at the head is answered from the documents it was asked of.   *)
LEMMA BasisIsDocuments ==
    ASSUME LspInv, to_server # <<>>, Message.op = "request"
    PROVE  \E a \in asked :
              a.id = Message.id /\ a.req = Message.req /\ a.basis = documents
<1>1. Shapes /\ RequestsInPlace BY DEF LspInv
<1>2. 1 \in DOMAIN to_server /\ Message = to_server[1]
  BY <1>1, TakenFromQueue DEF Shapes, Message
<1>3. PICK a \in asked :
         /\ a.id = to_server[1].id /\ a.req = to_server[1].req
         /\ \A u \in Uris : Delivers(to_server, 1 - 1, u, documents[u], a.basis[u])
  BY <1>1, <1>2 DEF RequestsInPlace
<1>4. \A u \in Uris : a.basis[u] = documents[u]
  <2>1. 1 - 1 = 0 OBVIOUS
  <2> QED BY <1>3, <2>1, DeliversNothing
<1>5. a.basis \in Docs /\ documents \in Docs BY <1>1 DEF Shapes
<1>6. a.basis = documents BY <1>4, <1>5 DEF Docs
<1> QED BY <1>2, <1>3, <1>6

(* A request that is taken frees its id; a response takes it over. *)
LEMMA HandleIds ==
    ASSUME Shapes, IdsOK, to_server # <<>>, to_server' = Tail(to_server),
           UNCHANGED <<asked, sent>>,
           \/ to_client' = to_client
           \/ \E r \in ToClient :
                 /\ to_client' = Append(to_client, r)
                 /\ r.op = "response" => Message.op = "request" /\ r.id = Message.id
    PROVE  IdsOK'
<1> DEFINE n == Len(to_server)
           k == Len(to_client)
<1>1. /\ n \in Nat \ {0} /\ DOMAIN to_server = 1 .. n /\ DOMAIN to_server' = 1 .. n - 1
      /\ Message = to_server[1]
      /\ \A i \in 1 .. n - 1 : to_server'[i] = to_server[i + 1]
  BY TakenFromQueue DEF Shapes, Message
<1>2. k \in Nat /\ DOMAIN to_client = 1 .. k BY DEF Shapes
<1>3. \A i \in DOMAIN to_client' :
         \/ i \in 1 .. k /\ to_client'[i] = to_client[i]
         \/ /\ i = k + 1
            /\ to_client'[i].op = "response" =>
                  Message.op = "request" /\ to_client'[i].id = Message.id
  <2>1. CASE to_client' = to_client BY <1>2, <2>1
  <2>2. ASSUME NEW r \in ToClient, to_client' = Append(to_client, r),
               r.op = "response" => Message.op = "request" /\ r.id = Message.id
        PROVE  \A i \in DOMAIN to_client' :
                  \/ i \in 1 .. k /\ to_client'[i] = to_client[i]
                  \/ /\ i = k + 1
                     /\ to_client'[i].op = "response" =>
                           Message.op = "request" /\ to_client'[i].id = Message.id
    <3>1. /\ DOMAIN to_client' = 1 .. k + 1 /\ to_client'[k + 1] = r
          /\ \A i \in 1 .. k : to_client'[i] = to_client[i]
          /\ \A i \in 1 .. k + 1 : i \in 1 .. k \/ i = k + 1
      BY <2>2, AppendedToQueue DEF Shapes
    <3> HIDE DEF k
    <3> QED BY <2>2, <3>1
  <2> QED BY <2>1, <2>2
<1> HIDE DEF n, k
<1>4. \A i \in 1 .. n - 1 : i + 1 \in 1 .. n /\ i + 1 # 1 /\ 1 \in 1 .. n BY <1>1
<1>5. \A i \in DOMAIN to_server' :
         to_server'[i].op = "request" => to_server'[i].id < sent
  BY <1>1, <1>4 DEF IdsOK
<1>6. \A i \in DOMAIN to_client' :
         to_client'[i].op = "response" => to_client'[i].id < sent
  <2> SUFFICES ASSUME NEW i \in DOMAIN to_client', to_client'[i].op = "response"
               PROVE  to_client'[i].id < sent
    OBVIOUS
  <2>1. CASE i \in 1 .. k /\ to_client'[i] = to_client[i] BY <1>2, <2>1 DEF IdsOK
  <2>2. CASE Message.op = "request" /\ to_client'[i].id = Message.id
    <3>1. 1 \in DOMAIN to_server BY <1>1
    <3> QED BY <1>1, <2>2, <3>1 DEF IdsOK
  <2> QED BY <1>3, <2>1, <2>2
<1>7. \A i, j \in DOMAIN to_server' :
        /\ to_server'[i].op = "request" /\ to_server'[j].op = "request"
        /\ to_server'[i].id = to_server'[j].id
        => i = j
  <2> SUFFICES ASSUME NEW i \in 1 .. n - 1, NEW j \in 1 .. n - 1,
                      to_server'[i].op = "request", to_server'[j].op = "request",
                      to_server'[i].id = to_server'[j].id
               PROVE  i = j
    BY <1>1
  <2>1. i + 1 = j + 1 BY <1>1, <1>4 DEF IdsOK
  <2> QED BY <2>1
<1>8. \A i, j \in DOMAIN to_client' :
        /\ to_client'[i].op = "response" /\ to_client'[j].op = "response"
        /\ to_client'[i].id = to_client'[j].id
        => i = j
  <2>1. \A i \in 1 .. k : to_client[i].op = "response" /\ Message.op = "request" =>
           to_client[i].id # Message.id
    <3>1. 1 \in DOMAIN to_server BY <1>1
    <3> QED BY <1>1, <1>2, <3>1 DEF IdsOK
  <2> QED BY <1>2, <1>3, <2>1 DEF IdsOK
<1>9. \A i \in DOMAIN to_server', j \in DOMAIN to_client' :
        to_server'[i].op = "request" /\ to_client'[j].op = "response" =>
           to_server'[i].id # to_client'[j].id
  <2> SUFFICES ASSUME NEW i \in 1 .. n - 1, NEW j \in DOMAIN to_client',
                      to_server'[i].op = "request", to_client'[j].op = "response",
                      to_server'[i].id = to_client'[j].id
               PROVE  FALSE
    BY <1>1
  <2>1. i + 1 \in 1 .. n /\ to_server'[i] = to_server[i + 1] BY <1>1, <1>4
  <2>2. CASE j \in 1 .. k /\ to_client'[j] = to_client[j]
    BY <1>1, <1>2, <2>1, <2>2 DEF IdsOK
  <2>3. CASE Message.op = "request" /\ to_client'[j].id = Message.id
    <3>1. i + 1 = 1 BY <1>1, <1>4, <2>1, <2>3 DEF IdsOK
    <3> QED BY <1>4, <3>1
  <2> QED BY <1>3, <2>2, <2>3
<1> QED BY <1>5, <1>6, <1>7, <1>8, <1>9 DEF IdsOK

States == {"waiting", "finishing", "running", "leaving", "stopped", "failed"}

(* It says nothing. *)
LEMMA HandleQuiet ==
    ASSUME LspInv, to_server # <<>>, to_server' = Tail(to_server),
           UNCHANGED <<client, to_client, documents>>, server' \in States,
           \A u \in Uris : ~Carries(Message, u)
    PROVE  LspInv'
<1> USE DEF client
<1>1. /\ Shapes /\ IdsOK /\ DiagnosticsComing /\ AnswersWhatWasAsked BY DEF LspInv
<1>2. to_server' \in Seq(ToServer) BY <1>1, TakenFromQueue DEF Shapes
<1>3. Shapes' BY <1>1, <1>2 DEF Shapes, States
<1>4. IdsOK' BY <1>1, HandleIds
<1>5. BuffersComing' /\ RequestsInPlace' BY HandleQueue DEF Updated
<1>6. DiagnosticsComing' BY <1>1 DEF DiagnosticsComing
<1>7. AnswersWhatWasAsked' BY <1>1 DEF AnswersWhatWasAsked
<1> QED BY <1>3, <1>4, <1>5, <1>6, <1>7 DEF LspInv

(* It answers. *)
LEMMA HandleRespond ==
    ASSUME LspInv, to_server # <<>>, to_server' = Tail(to_server),
           UNCHANGED <<client, documents>>, server' \in States,
           Message.op = "request", Respond(Answer(documents, Message.req))
    PROVE  LspInv'
<1> USE DEF client
<1> DEFINE r == [op |-> "response", id |-> Message.id,
                 result |-> Answer(documents, Message.req)]
           k == Len(to_client)
<1>1. /\ Shapes /\ IdsOK /\ DiagnosticsComing /\ AnswersWhatWasAsked BY DEF LspInv
<1>2. /\ to_server' \in Seq(ToServer) /\ Message \in ToServer
  BY <1>1, TakenFromQueue DEF Shapes, Message
<1>3. Message.id \in Nat /\ Message.req \in Requests BY <1>2 DEF ToServer
<1>4. /\ r.op = "response" /\ r.id = Message.id
      /\ r.result = Answer(documents, Message.req)
      /\ \A u : ~Carries(r, u)
  BY DEF Carries
<1>5. r \in ToClient
  <2>1. documents \in Docs BY <1>1 DEF Shapes
  <2>2. r \in [op: {"response"}, id: Nat,
               result: {Answer(d, q) : d \in Docs, q \in Requests}]
    BY <1>3, <2>1
  <2> QED BY <1>4, <2>2 DEF ToClient
<1>6. to_client' = Append(to_client, r) BY DEF Respond, Send
<1> HIDE DEF r
<1>7. /\ to_client \in Seq(ToClient) /\ k \in Nat /\ DOMAIN to_client = 1 .. k
      /\ to_client' \in Seq(ToClient) /\ Len(to_client') = k + 1
      /\ DOMAIN to_client' = 1 .. k + 1 /\ to_client'[k + 1] = r
      /\ \A i \in 1 .. k : to_client'[i] = to_client[i]
  BY <1>1, <1>5, <1>6 DEF Shapes
<1>8. Shapes' BY <1>1, <1>2, <1>7 DEF Shapes, States
<1>9. IdsOK' BY <1>1, <1>4, <1>5, <1>6, HandleIds
<1>10. BuffersComing' /\ RequestsInPlace'
  <2>1. \A u \in Uris : ~Carries(Message, u) BY DEF Carries
  <2> QED BY <2>1, HandleQueue DEF Updated
<1>11. DiagnosticsComing'
  <2> SUFFICES ASSUME NEW u \in Uris
               PROVE  Delivers(to_client', k + 1, u, shown[u], Diagnostics(documents[u]))
    BY <1>7 DEF DiagnosticsComing
  <2>1. Delivers(to_client, k, u, shown[u], Diagnostics(documents[u]))
    BY <1>1 DEF DiagnosticsComing
  <2>2. k \in 0 .. Len(to_client) BY <1>7
  <2> HIDE DEF k
  <2>3. Delivers(to_client', k + 1, u, shown[u],
                 Updated(r, u, Diagnostics(documents[u])))
    BY <1>5, <1>6, <1>7, <2>1, <2>2, DeliversAppended DEF k
  <2> QED BY <1>4, <2>3 DEF Updated
<1>12. AnswersWhatWasAsked'
  <2> SUFFICES ASSUME NEW i \in 1 .. k + 1, to_client'[i].op = "response"
               PROVE  \E a \in asked : /\ a.id = to_client'[i].id
                                       /\ to_client'[i].result = Answer(a.basis, a.req)
    BY <1>7 DEF AnswersWhatWasAsked
  <2>1. CASE i \in 1 .. k BY <1>1, <1>7, <2>1 DEF AnswersWhatWasAsked
  <2>2. CASE i = k + 1
    <3>1. PICK a \in asked :
             a.id = Message.id /\ a.req = Message.req /\ a.basis = documents
      BY BasisIsDocuments
    <3> QED BY <1>4, <1>7, <2>2, <3>1
  <2>3. i \in 1 .. k \/ i = k + 1 BY <1>7
  <2> QED BY <2>1, <2>2, <2>3
<1> QED BY <1>8, <1>9, <1>10, <1>11, <1>12 DEF LspInv

(* It has a new text, and sends its diagnostics: update_document, and      *)
(* the end of a document.                                                  *)
LEMMA HandleUpdate ==
    ASSUME LspInv, to_server # <<>>, to_server' = Tail(to_server),
           UNCHANGED <<client, server>>, NEW u \in Uris, Carries(Message, u),
           documents' = [documents EXCEPT ![u] = Given(Message)],
           Send(Publish(u, Diagnostics(Given(Message))))
    PROVE  LspInv'
<1> USE DEF client
<1> DEFINE r == Publish(u, Diagnostics(Given(Message)))
           k == Len(to_client)
<1>1. /\ Shapes /\ IdsOK /\ DiagnosticsComing /\ AnswersWhatWasAsked BY DEF LspInv
<1>2. /\ to_server' \in Seq(ToServer) /\ Message \in ToServer
  BY <1>1, TakenFromQueue DEF Shapes, Message
<1>3. Given(Message) \in TextsOf[u] \cup {Closed} BY <1>2 DEF ToServer
<1>4. \A w \in Uris : Carries(Message, w) <=> w = u BY DEF Carries
<1>5. /\ documents \in Docs /\ documents' \in Docs
      /\ \A w \in Uris : documents'[w] = Updated(Message, w, documents[w])
  <2>1. documents \in Docs BY <1>1 DEF Shapes
  <2>2. Given(Message) \in Texts \cup {Closed} BY <1>3 DEF Texts
  <2> QED BY <1>3, <1>4, <2>1, <2>2 DEF Docs, Updated
<1>6. /\ r.op = "publishDiagnostics" /\ r.uri = u
      /\ r.diagnostics = Diagnostics(Given(Message))
  BY DEF Publish
<1>7. \A w \in Uris : /\ Carries(r, w) <=> w = u
                      /\ Given(r) = Diagnostics(Given(Message))
  BY <1>6 DEF Carries, Given
<1>8. Diagnostics(Given(Message)) \subseteq TextsOf[u] BY <1>3 DEF Diagnostics
<1>9. r \in ToClient
  <2>1. Diagnostics(Given(Message)) \in SUBSET Texts BY <1>8 DEF Texts
  <2>2. r \in [op: {"publishDiagnostics"}, uri: Uris, diagnostics: SUBSET Texts]
    BY <2>1 DEF Publish
  <2> HIDE DEF r
  <2> QED BY <1>7, <1>8, <2>2 DEF ToClient
<1>10. to_client' = Append(to_client, r) BY DEF Send
<1> HIDE DEF r
<1>11. /\ to_client \in Seq(ToClient) /\ k \in Nat /\ DOMAIN to_client = 1 .. k
       /\ to_client' \in Seq(ToClient) /\ Len(to_client') = k + 1
       /\ DOMAIN to_client' = 1 .. k + 1 /\ to_client'[k + 1] = r
       /\ \A i \in 1 .. k : to_client'[i] = to_client[i]
  BY <1>1, <1>9, <1>10 DEF Shapes
<1>12. Shapes' BY <1>1, <1>2, <1>5, <1>11 DEF Shapes, States
<1>13. IdsOK' BY <1>1, <1>6, <1>9, <1>10, HandleIds
<1>14. BuffersComing' /\ RequestsInPlace' BY <1>5, HandleQueue
<1>15. DiagnosticsComing'
  <2> SUFFICES ASSUME NEW w \in Uris
               PROVE  Delivers(to_client', k + 1, w, shown[w], Diagnostics(documents'[w]))
    BY <1>11 DEF DiagnosticsComing, Diagnostics
  <2>1. Delivers(to_client, k, w, shown[w], Diagnostics(documents[w]))
    BY <1>1 DEF DiagnosticsComing
  <2>2. k \in 0 .. Len(to_client) BY <1>11
  <2> HIDE DEF k
  <2>3. Delivers(to_client', k + 1, w, shown[w],
                 Updated(r, w, Diagnostics(documents[w])))
    BY <1>9, <1>10, <1>11, <2>1, <2>2, DeliversAppended DEF k
  <2>4. Updated(r, w, Diagnostics(documents[w])) = Diagnostics(documents'[w])
    BY <1>4, <1>5, <1>7 DEF Updated
  <2> QED BY <2>3, <2>4
<1>16. AnswersWhatWasAsked'
  <2> SUFFICES ASSUME NEW i \in 1 .. k + 1, to_client'[i].op = "response"
               PROVE  \E a \in asked : /\ a.id = to_client'[i].id
                                       /\ to_client'[i].result = Answer(a.basis, a.req)
    BY <1>11 DEF AnswersWhatWasAsked
  <2>1. i # k + 1 BY <1>6, <1>11
  <2>2. i \in 1 .. k BY <1>11, <2>1
  <2> QED BY <1>1, <1>11, <2>2 DEF AnswersWhatWasAsked
<1> QED BY <1>12, <1>13, <1>14, <1>15, <1>16 DEF LspInv

-----------------------------------------------------------------------------
(* The editor takes a message.                                             *)

LEMMA ReceiveStep ==
    ASSUME LspInv, Receive
    PROVE  LspInv'
<1> DEFINE m == Head(to_client)
           k == Len(to_client)
<1>1. /\ Shapes /\ IdsOK /\ BuffersComing /\ RequestsInPlace /\ DiagnosticsComing
      /\ AnswersWhatWasAsked
  BY DEF LspInv
<1>2. /\ to_client # <<>> /\ to_client' = Tail(to_client)
      /\ UNCHANGED <<editor, buffer, sent, to_server, server, documents>>
      /\ \/ /\ m.op = "publishDiagnostics" /\ UNCHANGED asked
            /\ shown' = [shown EXCEPT ![m.uri] = m.diagnostics]
         \/ /\ m.op = "response" /\ UNCHANGED shown
            /\ asked' = {a \in asked : a.id # m.id}
  BY DEF Receive
<1>3. /\ to_client' \in Seq(ToClient) /\ k \in Nat \ {0} /\ DOMAIN to_client = 1 .. k
      /\ DOMAIN to_client' = 1 .. k - 1 /\ Len(to_client') = k - 1
      /\ m = to_client[1] /\ m \in ToClient /\ 1 \in DOMAIN to_client
      /\ \A i \in 1 .. k - 1 : to_client'[i] = to_client[i + 1] /\ i + 1 \in DOMAIN to_client
  BY <1>1, <1>2, TakenFromQueue DEF Shapes
<1>4. \A u \in Uris : shown'[u] = Updated(m, u, shown[u])
  <2>1. CASE /\ m.op = "publishDiagnostics"
             /\ shown' = [shown EXCEPT ![m.uri] = m.diagnostics]
    <3>1. m.uri \in Uris BY <1>3, <2>1 DEF ToClient
    <3> QED BY <1>1, <2>1, <3>1 DEF Shapes, Updated, Carries, Given
  <2>2. CASE m.op = "response" /\ shown' = shown
    BY <2>2 DEF Updated, Carries
  <2> QED BY <1>2, <2>1, <2>2
<1>5. asked' \subseteq asked BY <1>2
<1> HIDE DEF k, m
<1>6. Shapes'
  <2>1. shown' \in [Uris -> SUBSET Texts] /\ \A u \in Uris : shown'[u] \subseteq TextsOf[u]
    <3>1. \A u \in Uris : Carries(m, u) => Given(m) \subseteq TextsOf[u]
      BY <1>3 DEF ToClient
    <3>2. \A u \in Uris : shown'[u] \subseteq TextsOf[u]
      BY <1>1, <1>4, <3>1 DEF Shapes, Updated
    <3>3. DOMAIN shown' = DOMAIN shown /\ shown' = [u \in DOMAIN shown' |-> shown'[u]]
      <4>1. shown = [u \in DOMAIN shown |-> shown[u]] BY <1>1 DEF Shapes
      <4> QED BY <1>2, <4>1
    <3>4. DOMAIN shown = Uris BY <1>1 DEF Shapes
    <3>5. \A u \in Uris : shown'[u] \in SUBSET Texts BY <3>2 DEF Texts
    <3> QED BY <3>2, <3>3, <3>4, <3>5
  <2> QED BY <1>1, <1>2, <1>3, <1>5, <2>1 DEF Shapes
<1>7. IdsOK'
  <2>1. \A i \in 1 .. k - 1 : i + 1 \in 1 .. k BY <1>3
  <2>2. \A i \in DOMAIN to_client' :
           to_client'[i].op = "response" => to_client'[i].id < sent
    BY <1>1, <1>3, <2>1 DEF IdsOK
  <2>3. \A i, j \in DOMAIN to_client' :
          /\ to_client'[i].op = "response" /\ to_client'[j].op = "response"
          /\ to_client'[i].id = to_client'[j].id
          => i = j
    <3> SUFFICES ASSUME NEW i \in 1 .. k - 1, NEW j \in 1 .. k - 1,
                        to_client'[i].op = "response", to_client'[j].op = "response",
                        to_client'[i].id = to_client'[j].id
                 PROVE  i = j
      BY <1>3
    <3>1. i + 1 = j + 1 BY <1>1, <1>3, <2>1 DEF IdsOK
    <3> QED BY <3>1
  <2>4. \A i \in DOMAIN to_server, j \in DOMAIN to_client' :
          to_server[i].op = "request" /\ to_client'[j].op = "response" =>
             to_server[i].id # to_client'[j].id
    BY <1>1, <1>3, <2>1 DEF IdsOK
  <2> QED BY <1>1, <1>2, <1>5, <2>2, <2>3, <2>4 DEF IdsOK
<1>8. BuffersComing' BY <1>1, <1>2 DEF BuffersComing
<1>9. RequestsInPlace'
  <2> SUFFICES ASSUME NEW i \in DOMAIN to_server, to_server[i].op = "request"
               PROVE  \E a \in asked' :
                         /\ a.id = to_server[i].id /\ a.req = to_server[i].req
                         /\ \A u \in Uris :
                               Delivers(to_server, i - 1, u, documents[u], a.basis[u])
    BY <1>2 DEF RequestsInPlace
  <2>1. PICK a \in asked :
           /\ a.id = to_server[i].id /\ a.req = to_server[i].req
           /\ \A u \in Uris : Delivers(to_server, i - 1, u, documents[u], a.basis[u])
    BY <1>1 DEF RequestsInPlace
  <2>2. m.op = "response" => to_server[i].id # m.id BY <1>1, <1>3 DEF IdsOK
  <2>3. a \in asked' BY <1>2, <2>1, <2>2 DEF m
  <2> QED BY <2>1, <2>3
<1>10. DiagnosticsComing'
  <2> SUFFICES ASSUME NEW u \in Uris
               PROVE  Delivers(to_client', k - 1, u, shown'[u], Diagnostics(documents[u]))
    BY <1>2, <1>3 DEF DiagnosticsComing, Diagnostics
  <2>1. Delivers(to_client, k, u, shown[u], Diagnostics(documents[u]))
    BY <1>1 DEF DiagnosticsComing, k
  <2>2. k \in 1 .. Len(to_client) /\ to_client \in Seq(ToClient)
    BY <1>1, <1>3 DEF k, Shapes
  <2>3. Delivers(to_client', k - 1, u, Updated(m, u, shown[u]), Diagnostics(documents[u]))
    BY <1>2, <2>1, <2>2, DeliversTaken DEF m
  <2> QED BY <1>4, <2>3
<1>11. AnswersWhatWasAsked'
  <2> SUFFICES ASSUME NEW i \in 1 .. k - 1, to_client'[i].op = "response"
               PROVE  \E a \in asked' : /\ a.id = to_client'[i].id
                                        /\ to_client'[i].result = Answer(a.basis, a.req)
    BY <1>3 DEF AnswersWhatWasAsked
  <2>1. i + 1 \in DOMAIN to_client /\ to_client'[i] = to_client[i + 1] /\ i + 1 # 1
    BY <1>3
  <2>2. PICK a \in asked : /\ a.id = to_client[i + 1].id
                           /\ to_client[i + 1].result = Answer(a.basis, a.req)
    BY <1>1, <2>1 DEF AnswersWhatWasAsked
  <2>3. m.op = "response" => to_client[i + 1].id # m.id BY <1>1, <1>3, <2>1 DEF IdsOK
  <2>4. a \in asked' BY <1>2, <2>2, <2>3 DEF m
  <2> QED BY <2>1, <2>2, <2>4
<1> QED BY <1>6, <1>7, <1>8, <1>9, <1>10, <1>11 DEF LspInv

-----------------------------------------------------------------------------
(* The editor's messages.                                                  *)

(* A notification that gives no document a new text. *)
LEMMA NotifyStep ==
    ASSUME LspInv, NEW m \in ToServer, m.op # "request", Post(m), UNCHANGED <<asked, buffer>>,
           editor' \in {"new", "starting", "ready", "quitting", "gone"},
           \A u \in Uris : ~Carries(m, u)
    PROVE  LspInv'
<1>1. /\ sent < MaxSends /\ sent' = sent + 1 /\ to_server' = Append(to_server, m)
      /\ UNCHANGED <<shown, to_client, server, documents>>
  BY DEF Post
<1>2. sent \in 0 .. MaxSends /\ buffer \in Docs /\ MaxSends \in Nat
  BY LspAssumption DEF LspInv, Shapes
<1>3. sent' \in 0 .. MaxSends /\ sent <= sent' BY <1>1, <1>2
<1>4. \A u \in Uris : buffer'[u] = Updated(m, u, buffer[u]) BY DEF Updated
<1> QED BY <1>1, <1>2, <1>3, <1>4, PostStep

(* One that gives u the text t. *)
LEMMA NewTextStep ==
    ASSUME LspInv, NEW m \in ToServer, m.op # "request", Post(m), UNCHANGED <<editor, asked>>,
           NEW u \in Uris, NEW t \in TextsOf[u] \cup {Closed}, Carries(m, u), Given(m) = t,
           buffer' = [buffer EXCEPT ![u] = t]
    PROVE  LspInv'
<1>1. /\ sent < MaxSends /\ sent' = sent + 1 /\ to_server' = Append(to_server, m)
      /\ UNCHANGED <<shown, to_client, server, documents>>
  BY DEF Post
<1>2. /\ sent \in 0 .. MaxSends /\ buffer \in Docs /\ MaxSends \in Nat
      /\ editor \in {"new", "starting", "ready", "quitting", "gone"}
  BY LspAssumption DEF LspInv, Shapes
<1>3. sent' \in 0 .. MaxSends /\ sent <= sent' BY <1>1, <1>2
<1>4. \A w \in Uris : Carries(m, w) => w = u BY DEF Carries
<1>5. t \in Texts \cup {Closed} BY DEF Texts
<1>6. buffer' \in Docs /\ \A w \in Uris : buffer'[w] = Updated(m, w, buffer[w])
  BY <1>2, <1>4, <1>5 DEF Docs, Updated
<1> QED BY <1>1, <1>2, <1>3, <1>6, PostStep

LEMMA RequestStep ==
    ASSUME LspInv, NEW r \in Requests, Request(r), UNCHANGED buffer,
           editor' \in {"new", "starting", "ready", "quitting", "gone"}
    PROVE  LspInv'
<1> DEFINE m == [op |-> "request", id |-> sent, req |-> r]
<1>1. /\ sent < MaxSends /\ sent' = sent + 1 /\ to_server' = Append(to_server, m)
      /\ UNCHANGED <<shown, to_client, server, documents>>
      /\ asked' = asked \cup {[id |-> sent, req |-> r, basis |-> buffer]}
  BY DEF Request, Post
<1>2. sent \in 0 .. MaxSends /\ buffer \in Docs /\ MaxSends \in Nat
  BY LspAssumption DEF LspInv, Shapes
<1>3. sent' \in 0 .. MaxSends /\ sent <= sent' /\ sent \in Nat BY <1>1, <1>2
<1>4. m.op = "request" /\ m.id = sent /\ m.req = r /\ \A u : ~Carries(m, u)
  BY DEF Carries
<1>5. m \in ToServer
  <2>1. m \in [op: {"request"}, id: Nat, req: Requests] BY <1>3
  <2> HIDE DEF m
  <2> QED BY <1>4, <2>1 DEF ToServer
<1> HIDE DEF m
<1>6. \A u \in Uris : buffer'[u] = Updated(m, u, buffer[u]) BY <1>4 DEF Updated
<1> QED BY <1>1, <1>2, <1>3, <1>4, <1>5, <1>6, PostStep

LEMMA EditorOK ==
    ASSUME LspInv, Editor
    PROVE  LspInv'
<1>1. Shapes BY DEF LspInv
<1>2. /\ buffer \in Docs /\ \A u \in Uris : buffer[u] \in TextsOf[u] \cup {Closed}
      /\ editor \in {"new", "starting", "ready", "quitting", "gone"}
  BY <1>1 DEF Shapes, Docs
<1>3. CASE Initialize \/ Quit \/ Ask([op |-> "unknown"]) \/ Ask([op |-> "malformed"])
  <2>1. PICK o \in {"initialize", "shutdown", "unknown", "malformed"} :
           Request([op |-> o]) /\ UNCHANGED buffer
           /\ editor' \in {"new", "starting", "ready", "quitting", "gone"}
    BY <1>2, <1>3 DEF Initialize, Quit, Ask
  <2>2. [op |-> o] \in Requests BY DEF Requests
  <2> QED BY <2>1, <2>2, RequestStep
<1>4. CASE Initialized
  <2> DEFINE m == [op |-> "initialized"]
  <2>1. m.op = "initialized" /\ \A u : ~Carries(m, u) BY DEF Carries
  <2>2. m \in ToServer BY <2>1 DEF ToServer
  <2>3. Post(m) /\ UNCHANGED <<asked, buffer>> /\ editor' = "ready"
    BY <1>4 DEF Initialized, Notify
  <2> HIDE DEF m
  <2> QED BY <2>1, <2>2, <2>3, NotifyStep
<1>5. ASSUME NEW u \in Uris, NEW t \in TextsOf[u], OpenDocument(u, t) PROVE LspInv'
  <2> DEFINE m == [op |-> "didOpen", uri |-> u, text |-> t]
  <2>1. m.op = "didOpen" /\ m.uri = u /\ m.text = t OBVIOUS
  <2>2. m \in [op: {"didOpen"}, uri: Uris, text: Texts] BY DEF Texts
  <2>3. /\ Post(m) /\ UNCHANGED <<editor, asked>> /\ buffer' = [buffer EXCEPT ![u] = t]
    BY <1>5 DEF OpenDocument, Notify
  <2> HIDE DEF m
  <2>4. Carries(m, u) /\ Given(m) = t /\ \A w : Carries(m, w) => w = u
    BY <2>1 DEF Carries, Given
  <2>5. m \in ToServer BY <2>2, <2>4 DEF ToServer
  <2> QED BY <2>1, <2>3, <2>4, <2>5, NewTextStep
<1>6. ASSUME NEW u \in Uris, NEW n \in 0 .. MaxBatch, NEW s \in [1 .. n -> TextsOf[u]],
             Edit(u, s)
      PROVE  LspInv'
  <2> DEFINE m == [op |-> "didChange", uri |-> u, changes |-> s]
  <2>1. m.op = "didChange" /\ m.uri = u /\ m.changes = s OBVIOUS
  <2>2. m \in [op: {"didChange"}, uri: Uris, changes: Seq(Texts)]
    <3>1. TextsOf[u] \subseteq Texts BY DEF Texts
    <3>2. n \in Nat BY LspAssumption
    <3>3. s \in Seq(Texts) BY <3>1, <3>2
    <3> QED BY <3>3
  <2>3. Post(m) /\ UNCHANGED <<editor, asked>> BY <1>6 DEF Edit, Notify
  <2> HIDE DEF m
  <2>4. CASE s = <<>>
    <3>1. \A w : ~Carries(m, w) BY <2>1, <2>4 DEF Carries
    <3>2. m \in ToServer BY <2>2, <3>1 DEF ToServer
    <3>3. UNCHANGED buffer BY <1>6, <2>4 DEF Edit
    <3> QED BY <1>2, <2>1, <2>3, <3>1, <3>2, <3>3, NotifyStep
  <2>5. CASE s # <<>>
    <3> DEFINE t == s[Len(s)]
    <3>1. t \in TextsOf[u]
      <4>1. n \in Nat BY LspAssumption
      <4>2. s \in Seq(TextsOf[u]) BY <4>1
      <4>3. Len(s) \in 1 .. Len(s) BY <2>5, <4>2
      <4> QED BY <4>2, <4>3
    <3>2. buffer' = [buffer EXCEPT ![u] = t] BY <1>6, <2>5 DEF Edit
    <3>3. Carries(m, u) /\ Given(m) = t /\ \A w : Carries(m, w) => w = u
      BY <2>1, <2>5 DEF Carries, Given
    <3> HIDE DEF t
    <3>4. m \in ToServer BY <2>2, <3>1, <3>3 DEF ToServer
    <3> QED BY <2>1, <2>3, <3>1, <3>2, <3>3, <3>4, NewTextStep
  <2> QED BY <2>4, <2>5
<1>7. ASSUME NEW u \in Uris, SaveDocument(u) PROVE LspInv'
  <2> DEFINE m == [op |-> "didSave", uri |-> u]
  <2>1. m.op = "didSave" /\ m \in [op: {"didSave", "didClose"}, uri: Uris] OBVIOUS
  <2>2. Post(m) /\ UNCHANGED <<editor, asked, buffer>>
    BY <1>7 DEF SaveDocument, Notify
  <2> HIDE DEF m
  <2>3. \A w : ~Carries(m, w) BY <2>1 DEF Carries
  <2>4. m \in ToServer BY <2>1, <2>3 DEF ToServer
  <2> QED BY <1>2, <2>1, <2>2, <2>3, <2>4, NotifyStep
<1>8. ASSUME NEW u \in Uris, CloseDocument(u) PROVE LspInv'
  <2> DEFINE m == [op |-> "didClose", uri |-> u]
  <2>1. /\ m.op = "didClose" /\ m.uri = u /\ m \in [op: {"didSave", "didClose"}, uri: Uris]
    OBVIOUS
  <2>2. Post(m) /\ UNCHANGED <<editor, asked>> /\ buffer' = [buffer EXCEPT ![u] = Closed]
    BY <1>8 DEF CloseDocument, Notify
  <2> HIDE DEF m
  <2>3. Carries(m, u) /\ Given(m) = Closed /\ \A w : Carries(m, w) => w = u
    BY <2>1 DEF Carries, Given
  <2>4. m \in ToServer BY <2>1, <2>3 DEF ToServer
  <2> QED BY <2>1, <2>2, <2>3, <2>4, NewTextStep
<1>9. ASSUME NEW u \in Uris, Ask([op |-> "query", uri |-> u]) PROVE LspInv'
  <2>1. [op |-> "query", uri |-> u] \in Requests BY DEF Requests
  <2> QED BY <1>2, <1>9, <2>1, RequestStep DEF Ask
<1>10. ASSUME NEW u \in Uris, buffer[u] # Closed, NEW b \in Bindings(buffer[u]),
              NEW new \in NewNames \cup {BadName}, AskRename(u, b, new)
       PROVE  LspInv'
  <2>1. buffer[u] \in Texts BY <1>2, <1>10 DEF Texts
  <2>2. b \in Bound BY <2>1 DEF Bound
  <2>3. [op |-> "rename", uri |-> u, at |-> b, new |-> new] \in Requests
    BY <2>2 DEF Requests
  <2> QED BY <1>2, <1>10, <2>3, RequestStep DEF AskRename, Ask
<1>11. CASE SendExit
  <2> DEFINE m == [op |-> "exit"]
  <2>1. m.op = "exit" /\ \A u : ~Carries(m, u) BY DEF Carries
  <2>2. m \in ToServer BY <2>1 DEF ToServer
  <2>3. /\ to_server' = Append(to_server, m) /\ editor' = "gone"
        /\ UNCHANGED <<buffer, shown, asked, sent, to_client, server, documents>>
    BY <1>11 DEF SendExit
  <2>4. sent \in 0 .. MaxSends /\ sent <= sent
    BY <1>1, LspAssumption DEF Shapes
  <2>5. \A u \in Uris : buffer'[u] = Updated(m, u, buffer[u])
    BY <2>1, <2>3 DEF Updated
  <2> HIDE DEF m
  <2> QED BY <1>2, <2>1, <2>2, <2>3, <2>4, <2>5, PostStep
<1> QED BY <1>3, <1>4, <1>5, <1>6, <1>7, <1>8, <1>9, <1>10, <1>11 DEF Editor

LEMMA ServeOK ==
    ASSUME LspInv, Serve
    PROVE  LspInv'
<1>1. /\ to_server # <<>> /\ to_server' = Tail(to_server) /\ UNCHANGED client
  BY DEF Serve, InitializeStart, InitializeFinish, DidOpen, DidChange, DidSave, DidClose,
         HandleRequest, HandleMalformed, HandleShutdown, HandleExit, HandlingRequest,
         Handling
<1>2. Message \in ToServer /\ server \in States
  BY <1>1, TakenFromQueue DEF LspInv, Shapes, States, Message
<1>3. CASE InitializeStart \/ HandleRequest \/ HandleShutdown
  <2>1. /\ Message.op = "request" /\ UNCHANGED documents
    BY <1>3 DEF InitializeStart, HandleRequest, HandleShutdown, HandlingRequest, Handling
  <2>2. server' \in States
    BY <1>2, <1>3 DEF InitializeStart, HandleRequest, HandleShutdown, States
  <2>3. Respond(Answer(documents, Message.req))
    <3>1. CASE HandleRequest BY <3>1 DEF HandleRequest
    <3>2. CASE InitializeStart \/ HandleShutdown
      <4>1. Message.req.op \in {"initialize", "shutdown"} /\ Respond(Null)
        BY <3>2 DEF InitializeStart, HandleShutdown, HandlingRequest
      <4>2. Answer(documents, Message.req) = Null BY <4>1 DEF Answer
      <4> QED BY <4>1, <4>2
    <3> QED BY <1>3, <3>1, <3>2
  <2> QED BY <1>1, <2>1, <2>2, <2>3, HandleRespond
<1>4. CASE InitializeFinish \/ DidSave \/ HandleMalformed \/ HandleExit
  <2>1. /\ Message.op \in {"initialized", "didSave", "request", "exit"}
        /\ UNCHANGED <<to_client, documents>>
    BY <1>4 DEF InitializeFinish, DidSave, HandleMalformed, HandleExit, HandlingRequest,
                Handling
  <2>2. server' \in States
    BY <1>2, <1>4 DEF InitializeFinish, DidSave, HandleMalformed, HandleExit, States
  <2>3. \A u \in Uris : ~Carries(Message, u) BY <2>1 DEF Carries
  <2> QED BY <1>1, <2>1, <2>2, <2>3, HandleQuiet
<1>5. CASE DidOpen
  <2>1. /\ Message.op = "didOpen" /\ UNCHANGED server
        /\ UpdateDocument(Message.uri, Message.text)
    BY <1>5 DEF DidOpen, Handling
  <2>2. Message.uri \in Uris BY <1>2, <2>1 DEF ToServer
  <2>3. Carries(Message, Message.uri) /\ Given(Message) = Message.text
    BY <2>1 DEF Carries, Given
  <2> QED BY <1>1, <2>1, <2>2, <2>3, HandleUpdate DEF UpdateDocument
<1>6. CASE DidChange
  <2>1. /\ Message.op = "didChange" /\ UNCHANGED server
        /\ IF Message.changes = <<>> THEN UNCHANGED <<to_client, documents>>
           ELSE UpdateDocument(Message.uri, Message.changes[Len(Message.changes)])
    BY <1>6 DEF DidChange, Handling
  <2>2. CASE Message.changes = <<>>
    <3>1. \A u \in Uris : ~Carries(Message, u) BY <2>1, <2>2 DEF Carries
    <3> QED BY <1>1, <1>2, <2>1, <2>2, <3>1, HandleQuiet
  <2>3. CASE Message.changes # <<>>
    <3>1. Message.uri \in Uris BY <1>2, <2>1 DEF ToServer
    <3>2. /\ Carries(Message, Message.uri)
          /\ Given(Message) = Message.changes[Len(Message.changes)]
      BY <2>1, <2>3 DEF Carries, Given
    <3> QED BY <1>1, <2>1, <2>3, <3>1, <3>2, HandleUpdate DEF UpdateDocument
  <2> QED BY <2>2, <2>3
<1>7. CASE DidClose
  <2>1. /\ Message.op = "didClose" /\ UNCHANGED server
        /\ documents' = [documents EXCEPT ![Message.uri] = Closed]
        /\ Send(Publish(Message.uri, {}))
    BY <1>7 DEF DidClose, Handling
  <2>2. Message.uri \in Uris BY <1>2, <2>1 DEF ToServer
  <2>3. Carries(Message, Message.uri) /\ Given(Message) = Closed
    BY <2>1 DEF Carries, Given
  <2>4. Diagnostics(Closed) = {} BY DEF Diagnostics
  <2> QED BY <1>1, <2>1, <2>2, <2>3, <2>4, HandleUpdate
<1> QED BY <1>3, <1>4, <1>5, <1>6, <1>7 DEF Serve

LEMMA LspInductive == LspInv /\ [Next]_vars => LspInv'
<1> SUFFICES ASSUME LspInv, [Next]_vars PROVE LspInv' OBVIOUS
<1>1. CASE Editor BY <1>1, EditorOK
<1>2. CASE Receive BY <1>2, ReceiveStep
<1>3. CASE Serve BY <1>3, ServeOK
<1>4. CASE ExitTimesOut \/ UNCHANGED vars
  <2>1. UNCHANGED <<client, to_server, to_client, documents>>
        /\ server' \in States
    BY <1>4 DEF ExitTimesOut, vars, client, LspInv, Shapes, States
  <2> QED BY <2>1 DEF LspInv, Shapes, States, IdsOK, BuffersComing, RequestsInPlace,
                      DiagnosticsComing, AnswersWhatWasAsked, client
<1> QED BY <1>1, <1>2, <1>3, <1>4 DEF Next

LEMMA LspInit == Init => LspInv
<1> SUFFICES ASSUME Init PROVE LspInv OBVIOUS
<1>1. /\ to_server = <<>> /\ to_client = <<>> /\ asked = {} /\ sent = 0
      /\ buffer = [u \in Uris |-> Closed] /\ documents = [u \in Uris |-> Closed]
      /\ shown = [u \in Uris |-> {}] /\ editor = "new" /\ server = "waiting"
  BY DEF Init
<1>2. /\ DOMAIN to_server = {} /\ DOMAIN to_client = {}
      /\ Len(to_server) = 0 /\ Len(to_client) = 0
  BY <1>1
<1>3. Shapes
  <2>1. buffer \in Docs /\ documents \in Docs BY <1>1 DEF Docs
  <2>2. to_server \in Seq(ToServer) /\ to_client \in Seq(ToClient) BY <1>1
  <2>3. sent \in 0 .. MaxSends BY <1>1, LspAssumption
  <2> QED BY <1>1, <2>1, <2>2, <2>3 DEF Shapes
<1>4. IdsOK /\ RequestsInPlace /\ AnswersWhatWasAsked
  BY <1>1, <1>2 DEF IdsOK, RequestsInPlace, AnswersWhatWasAsked
<1>5. BuffersComing BY <1>1, <1>2, DeliversNothing DEF BuffersComing
<1>6. DiagnosticsComing
  <2>1. Diagnostics(Closed) = {} BY DEF Diagnostics
  <2> QED BY <1>1, <1>2, <2>1, DeliversNothing DEF DiagnosticsComing
<1> QED BY <1>3, <1>4, <1>5, <1>6 DEF LspInv

-----------------------------------------------------------------------------
(* The theorems.                                                           *)

LEMMA AlwaysLspInv == Spec => []LspInv
BY LspInit, LspInductive, PTL DEF Spec

(* The server's documents are texts the editor gave it, and what is shown  *)
(* belongs to the document it is shown for (Server::documents).            *)
THEOREM TypeCorrect == Spec => []TypeOK
<1>1. LspInv => TypeOK
  <2> SUFFICES ASSUME LspInv PROVE TypeOK OBVIOUS
  <2>1. Shapes BY DEF LspInv
  <2>2. \A a \in asked : a.id \in 0 .. (MaxSends - 1)
    <3>1. sent \in 0 .. MaxSends /\ MaxSends \in Nat BY <2>1, LspAssumption DEF Shapes
    <3>2. \A a \in asked : a.id \in 0 .. sent - 1 BY <2>1 DEF Shapes
    <3> QED BY <3>1, <3>2
  <2> QED BY <2>1, <2>2 DEF TypeOK, Shapes, Docs
<1> QED BY <1>1, AlwaysLspInv, PTL

(* Every response answers its request from the documents as the user had   *)
(* them when asking, although the server was behind and the user went on   *)
(* (handle_request, handle_notification).                                  *)
THEOREM AnsweredAsAsked == Spec => []AnswersWhatWasAsked
<1>1. LspInv => AnswersWhatWasAsked BY DEF LspInv
<1> QED BY <1>1, AlwaysLspInv, PTL

(* Once nothing is under way the editor shows the diagnostics of its own   *)
(* buffers, although publishDiagnostics names no version                   *)
(* (update_document, and the didClose handler).                            *)
THEOREM DiagnosticsAreCurrent == Spec => []DiagnosticsSettle
<1>1. LspInv => DiagnosticsSettle
  <2> SUFFICES ASSUME LspInv, Settled, NEW u \in Uris
               PROVE  shown[u] = Diagnostics(buffer[u])
    BY DEF DiagnosticsSettle
  <2>1. Len(to_server) = 0 /\ Len(to_client) = 0 BY DEF Settled
  <2>2. buffer[u] = documents[u]
    BY <2>1, DeliversNothing DEF LspInv, BuffersComing
  <2>3. Diagnostics(documents[u]) = shown[u]
    BY <2>1, DeliversNothing DEF LspInv, DiagnosticsComing
  <2> QED BY <2>2, <2>3
<1> QED BY <1>1, AlwaysLspInv, PTL

-----------------------------------------------------------------------------
(* Renaming.                                                               *)

(* What the edits of a declaration's rename leave of each open document.   *)
LEMMA EditsOfOthers ==
    ASSUME NEW t \in SourceTexts, NEW u \in Uris, NEW name \in Names, NEW new \in Names
    PROVE  LET s == Reimported(t, u, name, new) IN
           /\ s \in SourceTexts /\ s.defs = t.defs
           /\ \A i \in s.imports :
                 \/ i \in t.imports \ Imports(t, u, name)
                 \/ i.from = u /\ i.imported = new
<1> DEFINE hit == Imports(t, u, name)
           moved(i) == [i EXCEPT !.imported = new,
                                 !.local = IF i.local = i.imported THEN new ELSE @]
           after == (t.imports \ hit) \cup {moved(i) : i \in hit}
<1>1. /\ t.imports \subseteq [from: Uris, imported: Names, local: Names]
      /\ t.defs \subseteq [name: Names, as: Names \cup {Null}]
      /\ t.parses \in BOOLEAN /\ t.ill \in BOOLEAN
      /\ t = [parses |-> t.parses, ill |-> t.ill, defs |-> t.defs, imports |-> t.imports]
  BY DEF SourceTexts
<1>2. ASSUME NEW i \in hit
      PROVE  /\ moved(i) \in [from: Uris, imported: Names, local: Names]
             /\ moved(i).from = u /\ moved(i).imported = new
  <2>1. i \in [from: Uris, imported: Names, local: Names] /\ i.from = u
    BY <1>1 DEF Imports
  <2>2. moved(i) = [from |-> i.from, imported |-> new,
                    local |-> IF i.local = i.imported THEN new ELSE i.local]
    <3>1. PICK l : l = IF i.local = i.imported THEN new ELSE i.local OBVIOUS
    <3>2. PICK j : j = [i EXCEPT !.imported = new] OBVIOUS
    <3>3. j = [from |-> i.from, imported |-> new, local |-> i.local] BY <2>1, <3>2
    <3>4. [j EXCEPT !.local = l] = [from |-> i.from, imported |-> new, local |-> l]
      BY <3>3
    <3>5. moved(i) = [j EXCEPT !.local = l] BY <3>1, <3>2
    <3> QED BY <3>1, <3>4, <3>5
  <2> QED BY <2>1, <2>2
<1>3. Reimported(t, u, name, new) = [t EXCEPT !.imports = after] BY DEF Reimported
<1>4. Reimported(t, u, name, new) =
        [parses |-> t.parses, ill |-> t.ill, defs |-> t.defs, imports |-> after]
  <2> HIDE DEF after
  <2> QED BY <1>1, <1>3
<1>5. after \subseteq [from: Uris, imported: Names, local: Names]
  BY <1>1, <1>2
<1>6. \A i \in after : i \in t.imports \ hit \/ (i.from = u /\ i.imported = new)
  BY <1>2
<1> HIDE DEF after, hit
<1>7. Reimported(t, u, name, new) \in SourceTexts
  BY <1>1, <1>4, <1>5 DEF SourceTexts
<1> QED BY <1>4, <1>6, <1>7 DEF hit

LEMMA EditsOfOwn ==
    ASSUME NEW t \in SourceTexts, NEW d \in t.defs, d.as = d.name, NEW new \in Names
    PROVE  LET s == Rewritten(t, [is |-> "decl", it |-> d], new) IN
           /\ s \in SourceTexts /\ s.imports = t.imports
           /\ \A e \in t.defs : e = d \/ e \in s.defs
           /\ \E e \in s.defs : e.as = new
<1> DEFINE after == (t.defs \ {d}) \cup {[name |-> new, as |-> new]}
<1>1. /\ t.imports \subseteq [from: Uris, imported: Names, local: Names]
      /\ t.defs \subseteq [name: Names, as: Names \cup {Null}]
      /\ t.parses \in BOOLEAN /\ t.ill \in BOOLEAN
      /\ t = [parses |-> t.parses, ill |-> t.ill, defs |-> t.defs, imports |-> t.imports]
  BY DEF SourceTexts
<1>2. Rewritten(t, [is |-> "decl", it |-> d], new) = [t EXCEPT !.defs = after]
  BY DEF Rewritten
<1>3. Rewritten(t, [is |-> "decl", it |-> d], new) =
        [parses |-> t.parses, ill |-> t.ill, defs |-> after, imports |-> t.imports]
  <2> HIDE DEF after
  <2> QED BY <1>1, <1>2
<1>4. after \subseteq [name: Names, as: Names \cup {Null}] BY <1>1
<1>5. Rewritten(t, [is |-> "decl", it |-> d], new) \in SourceTexts
  <2> HIDE DEF after
  <2> QED BY <1>1, <1>3, <1>4 DEF SourceTexts
<1>6. \E e \in after : e.as = new
  <2>1. [name |-> new, as |-> new] \in after OBVIOUS
  <2> QED BY <2>1
<1> QED BY <1>3, <1>5, <1>6

LEMMA RenameLinks ==
    ASSUME NEW docs \in Docs, NEW r \in Requests, r.op = "rename",
           r.at.is = "decl", r.at.it.as = r.at.it.name, OnRename(docs, r) # Null
    PROVE  WholeDocuments(docs) \subseteq WholeDocuments(Applied(docs, OnRename(docs, r)))
<1> DEFINE u    == r.uri
           d    == r.at.it
           edits == OnRename(docs, r)
           new  == r.new
           T    == Applied(docs, edits)
<1>1. u \in Uris /\ new \in NewNames \cup {BadName} BY DEF Requests
<1>2. docs[u] # Closed /\ new # BadName /\ r.at \in Bindings(docs[u]) BY DEF OnRename
<1>3. new \in Names BY <1>1, <1>2, LspAssumption
<1>4. \A w \in Uris : docs[w] # Closed => docs[w] \in TextsOf[w] /\ docs[w] \in SourceTexts
  BY LspAssumption DEF Docs, Texts
<1>5. d \in docs[u].defs /\ r.at = [is |-> "decl", it |-> d] BY <1>2 DEF Bindings
<1>6. d.name \in Names BY <1>1, <1>2, <1>4, <1>5 DEF SourceTexts
<1>7. DefName(r.at) = d.name BY DEF DefName
<1>8. edits = [w \in {u} \cup Importers(docs, u, d.name) |->
                 IF w = u THEN Rewritten(docs[w], r.at, new)
                 ELSE Reimported(docs[w], u, d.name, new)]
  BY <1>2, <1>7 DEF OnRename
<1> HIDE DEF edits
<1>9. /\ T[u] \in SourceTexts /\ T[u].imports = docs[u].imports
      /\ \A e \in docs[u].defs : e = d \/ e \in T[u].defs
      /\ \E e \in T[u].defs : e.as = new
  <2>1. T[u] = Rewritten(docs[u], [is |-> "decl", it |-> d], new)
    BY <1>1, <1>5, <1>8 DEF Applied
  <2>2. docs[u] \in SourceTexts BY <1>1, <1>2, <1>4
  <2> HIDE DEF u, d, new, T
  <2> QED BY <1>3, <1>5, <2>1, <2>2, EditsOfOwn DEF d
<1>10. ASSUME NEW w \in Uris, w # u, docs[w] # Closed
       PROVE  /\ T[w] \in SourceTexts /\ T[w].defs = docs[w].defs
              /\ \A i \in T[w].imports :
                    \/ i \in docs[w].imports \ Imports(docs[w], u, d.name)
                    \/ i.from = u /\ i.imported = new
  <2>1. docs[w] \in SourceTexts BY <1>4, <1>10
  <2>2. CASE w \in Importers(docs, u, d.name)
    <3>1. T[w] = Reimported(docs[w], u, d.name, new)
      BY <1>8, <1>10, <2>2 DEF Applied
    <3> HIDE DEF u, d, new, T
    <3> QED BY <1>1, <1>3, <1>6, <2>1, <3>1, EditsOfOthers
  <2>3. CASE w \notin Importers(docs, u, d.name)
    <3>1. T[w] = docs[w] BY <1>8, <1>10, <2>3 DEF Applied
    <3>2. Imports(docs[w], u, d.name) = {} BY <1>10, <2>3 DEF Importers
    <3> HIDE DEF u, d, new, T
    <3> QED BY <2>1, <3>1, <3>2
  <2> QED BY <2>2, <2>3
<1> HIDE DEF T
<1>11. Closed \notin SourceTexts BY LspAssumption
<1>12. ASSUME NEW v \in Uris, docs[v] # Closed, NEW e \in docs[v].defs, v # u \/ e # d
       PROVE  T[v] # Closed /\ e \in T[v].defs
  BY <1>9, <1>10, <1>11, <1>12
<1>13. ASSUME NEW w \in WholeDocuments(docs) PROVE w \in WholeDocuments(T)
  <2>1. w \in Uris /\ docs[w] # Closed /\ \A i \in docs[w].imports : Linked(docs, i)
    BY DEF WholeDocuments
  <2>2. T[w] # Closed BY <1>9, <1>10, <1>11, <2>1
  <2>3. ASSUME NEW i \in docs[w].imports,
               i.from # u \/ i.imported # d.name
        PROVE  Linked(T, i)
    <3>1. i.from \in Uris BY <1>4, <2>1 DEF SourceTexts
    <3>2. docs[i.from] # Closed /\ \E e \in docs[i.from].defs : e.as = i.imported
      BY <2>1 DEF Linked
    <3>3. PICK e \in docs[i.from].defs : e.as = i.imported BY <3>2
    <3>4. i.from # u \/ e # d BY <2>3, <3>3
    <3> QED BY <1>12, <3>1, <3>2, <3>3, <3>4 DEF Linked
  <2>4. ASSUME NEW i \in T[w].imports PROVE Linked(T, i)
    <3>1. CASE w = u
      <4>1. i \in docs[u].imports BY <1>9, <3>1
      <4>2. i.from # u BY <1>1, <1>2, <1>4, <4>1, NoSelfImport
      <4> QED BY <2>3, <3>1, <4>1, <4>2
    <3>2. CASE w # u /\ i \in docs[w].imports \ Imports(docs[w], u, d.name)
      BY <2>3, <3>2 DEF Imports
    <3>3. CASE i.from = u /\ i.imported = new
      BY <1>9, <1>11, <3>3 DEF Linked
    <3> QED BY <1>10, <2>1, <3>1, <3>2, <3>3
  <2> QED BY <2>1, <2>2, <2>4 DEF WholeDocuments
<1> QED BY <1>13 DEF T, edits

(* A rename's answer, whenever it arrives, renames the binding in the      *)
(* documents as they were when it was asked for, and the edits of all of   *)
(* them fit together: no import of an open document that found its         *)
(* declaration loses it, aliased or not (on_rename).                       *)
THEOREM RenameIsWhole == Spec => []RenameKeepsLinks
<1>1. LspInv => RenameKeepsLinks
  <2> SUFFICES ASSUME LspInv, NEW a \in Renames,
                      a.req.at.is = "decl", a.req.at.it.as = a.req.at.it.name,
                      NEW edits \in ResultOf(a)
               PROVE  WholeDocuments(a.basis) \subseteq
                          WholeDocuments(Applied(a.basis, edits))
    BY DEF RenameKeepsLinks
  <2>1. a \in asked /\ a.req.op = "rename" BY DEF Renames
  <2>2. a.req \in Requests /\ a.basis \in Docs BY <2>1 DEF LspInv, Shapes
  <2>3. PICK i \in DOMAIN to_client :
               /\ to_client[i].op = "response" /\ to_client[i].id = a.id
               /\ edits = to_client[i].result /\ edits # Null
    BY DEF ResultOf
  <2>4. PICK b \in asked : b.id = a.id /\ edits = Answer(b.basis, b.req)
    BY <2>3 DEF LspInv, AnswersWhatWasAsked
  <2>5. a = b BY <2>1, <2>4 DEF LspInv, IdsOK
  <2>6. edits = OnRename(a.basis, a.req) BY <2>1, <2>4, <2>5 DEF Answer
  <2> QED BY <2>1, <2>2, <2>3, <2>6, RenameLinks
<1> QED BY <1>1, AlwaysLspInv, PTL
=============================================================================
