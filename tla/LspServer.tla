----------------------------- MODULE LspServer -----------------------------
(***************************************************************************)
(* The language server (inty-lsp/src/server.rs) and the editor it serves.  *)
(*                                                                         *)
(* The server is one thread: it takes the next message of the editor off   *)
(* `to_server`, runs its handler to the end (the check itself blocks on a  *)
(* worker thread) and queues what the handler sends on `to_client`.  The   *)
(* editor goes on meanwhile: it edits, asks and closes without waiting, so *)
(* everything the server says may be about a text the user has left.       *)
(*                                                                         *)
(* The editor (the client half of the protocol) and the crate lsp-server   *)
(* (handshake and shutdown) are external: modelled from how the server     *)
(* uses them.  Each document is checked on its own, so its diagnostics are *)
(* a function of its text.  A text is abstracted to what the handlers look *)
(* at: does it parse, has it errors, the bindings it declares with the     *)
(* name each is exported as, and its named imports.                        *)
(***************************************************************************)
EXTENDS Integers, Sequences, FiniteSets

CONSTANTS
    Uris,          \* documents
    TextsOf,       \* the texts each document may have
    Names,         \* identifiers
    NewNames,      \* valid identifiers to rename to, free in every document
    BadName,       \* a new name that is no identifier
    Closed,        \* the document is not open
    Null,          \* a null result; no export name
    MaxBatch,      \* bound on the changes of one didChange
    MaxSends       \* bound on the messages the editor sends

Texts == UNION {TextsOf[u] : u \in Uris}

(* What the handlers look at in a text: its bindings with the name each is *)
(* exported as, and its named imports.                                     *)
SourceTexts ==
    [parses: BOOLEAN, ill: BOOLEAN,
     defs: SUBSET [name: Names, as: Names \cup {Null}],
     imports: SUBSET [from: Uris, imported: Names, local: Names]]

ASSUME LspAssumption ==
    /\ Texts \subseteq SourceTexts /\ NewNames \subseteq Names
    /\ Closed \notin SourceTexts /\ BadName \notin NewNames
    /\ MaxBatch \in Nat /\ MaxSends \in Nat
    /\ \A t \in Texts : ~t.parses => t.ill /\ t.defs = {} /\ t.imports = {}
    /\ \A t \in Texts : \A d \in t.defs : {d.name, d.as} \cap NewNames = {}

(* No document imports from itself: the loader refuses it as circular, and *)
(* on_rename looks for importers in the other documents only.              *)
ASSUME NoSelfImport ==
    \A u \in Uris : \A t \in TextsOf[u] : \A i \in t.imports : i.from # u

VARIABLES
    editor,        \* the editor's side of the protocol's life cycle
    buffer,        \* the text of each document in the editor
    shown,         \* the diagnostics it shows for each
    asked,         \* requests it waits for, with the buffers at the time
    sent,          \* messages it has sent
    to_server,     \* messages under way to the server
    to_client,     \* messages under way to the editor
    server,        \* the server's side of the life cycle
    documents      \* Server::documents

client == <<editor, buffer, shown, asked, sent>>
vars == <<client, to_server, to_client, server, documents>>

-----------------------------------------------------------------------------
(* What the handlers compute.                                              *)

(* Errors and warnings, each placed in the text. *)
Diagnostics(t) == IF t # Closed /\ t.ill THEN {t} ELSE {}

(* What a position in a text can hit (binding_at, def_at): a declaration,  *)
(* or a name an import binds.                                              *)
Bindings(t) == [is: {"decl"}, it: t.defs] \cup [is: {"import"}, it: t.imports]

DefName(b) == IF b.is = "decl" THEN b.it.name ELSE b.it.local

(* The text after the binding and its uses were rewritten.  The uses cover *)
(* `export { x }`, and `export { x as y }` keeps its y; the span of a name *)
(* an import binds is its whole specifier.                                 *)
Rewritten(t, b, new) ==
    IF b.is = "decl"
    THEN [t EXCEPT !.defs = (@ \ {b.it}) \cup
            {[name |-> new,
              as   |-> IF b.it.as = b.it.name THEN new ELSE b.it.as]}]
    ELSE [t EXCEPT !.imports = (@ \ {b.it}) \cup
            {[b.it EXCEPT !.imported = new, !.local = new]}]

Imports(t, u, name) == {i \in t.imports : i.from = u /\ i.imported = name}

(* Another document after its imports of the name were rewritten: the      *)
(* imported part of the specifier and, unless it is aliased, the uses.     *)
Reimported(t, u, name, new) ==
    LET hit == Imports(t, u, name) IN
    [t EXCEPT !.imports = (@ \ hit) \cup
        {[i EXCEPT !.imported = new,
                   !.local = IF i.local = i.imported THEN new ELSE @] : i \in hit}]

(* A seeded defect: a document that imports the name under an alias is     *)
(* taken to need no edit.                                                  *)
ImportersUnaliased(docs, u, name) ==
    {w \in Uris \ {u} : docs[w] # Closed /\
        \E i \in Imports(docs[w], u, name) : i.local = name}

Importers(docs, u, name) ==
    {w \in Uris \ {u} : docs[w] # Closed /\ Imports(docs[w], u, name) # {}}

(* on_rename: the edits, as the texts they lead to. *)
OnRename(docs, r) ==
    IF docs[r.uri] = Closed \/ r.new = BadName \/ r.at \notin Bindings(docs[r.uri])
    THEN Null
    ELSE [w \in {r.uri} \cup Importers(docs, r.uri, DefName(r.at)) |->
            IF w = r.uri THEN Rewritten(docs[w], r.at, r.new)
            ELSE Reimported(docs[w], r.uri, DefName(r.at), r.new)]

(* The features that only read: hover, definition, prepare_rename,         *)
(* completion, signature help and inlay hints.  Each answers from the text *)
(* of one document.                                                        *)
OnQuery(docs, r) == IF docs[r.uri] = Closed THEN Null ELSE docs[r.uri]

Answer(docs, r) ==
    CASE r.op = "rename" -> OnRename(docs, r)
      [] r.op = "query"  -> OnQuery(docs, r)
      [] r.op \in {"unknown", "initialize", "shutdown"} -> Null

-----------------------------------------------------------------------------
(* The editor.                                                             *)

Init ==
    /\ editor = "new" /\ server = "waiting"
    /\ buffer = [u \in Uris |-> Closed] /\ shown = [u \in Uris |-> {}]
    /\ documents = [u \in Uris |-> Closed]
    /\ asked = {} /\ sent = 0
    /\ to_server = <<>> /\ to_client = <<>>

Post(m) ==
    /\ sent < MaxSends /\ sent' = sent + 1
    /\ to_server' = Append(to_server, m)
    /\ UNCHANGED <<shown, to_client, server, documents>>

Notify(m) == Post(m) /\ UNCHANGED asked

(* A request carries a fresh id; its answer is awaited. *)
Request(r) ==
    /\ Post([op |-> "request", id |-> sent, req |-> r])
    /\ asked' = asked \cup {[id |-> sent, req |-> r, basis |-> buffer]}

Initialize ==
    /\ editor = "new" /\ editor' = "starting"
    /\ Request([op |-> "initialize"]) /\ UNCHANGED buffer

Initialized ==
    /\ editor = "starting" /\ asked = {} /\ editor' = "ready"
    /\ Notify([op |-> "initialized"]) /\ UNCHANGED buffer

OpenDocument(u, t) ==
    /\ editor = "ready" /\ buffer[u] = Closed
    /\ buffer' = [buffer EXCEPT ![u] = t]
    /\ Notify([op |-> "didOpen", uri |-> u, text |-> t])
    /\ UNCHANGED editor

(* The user edits.  One notification may carry several changes, each with  *)
(* the whole new text, or none.                                            *)
Edit(u, changes) ==
    /\ editor = "ready" /\ buffer[u] # Closed
    /\ buffer' = IF changes = <<>> THEN buffer
                 ELSE [buffer EXCEPT ![u] = changes[Len(changes)]]
    /\ Notify([op |-> "didChange", uri |-> u, changes |-> changes])
    /\ UNCHANGED editor

SaveDocument(u) ==
    /\ editor = "ready" /\ buffer[u] # Closed
    /\ Notify([op |-> "didSave", uri |-> u])
    /\ UNCHANGED <<editor, buffer>>

CloseDocument(u) ==
    /\ editor = "ready" /\ buffer[u] # Closed
    /\ buffer' = [buffer EXCEPT ![u] = Closed]
    /\ Notify([op |-> "didClose", uri |-> u])
    /\ UNCHANGED editor

(* A feature is asked for, perhaps of a document just closed. *)
Ask(r) ==
    /\ editor = "ready"
    /\ Request(r) /\ UNCHANGED <<editor, buffer>>

AskRename(u, b, new) ==
    Ask([op |-> "rename", uri |-> u, at |-> b, new |-> new])

Quit ==
    /\ editor = "ready" /\ editor' = "quitting"
    /\ Request([op |-> "shutdown"]) /\ UNCHANGED buffer

SendExit ==
    /\ editor = "quitting" /\ asked = {} /\ editor' = "gone"
    /\ to_server' = Append(to_server, [op |-> "exit"])
    /\ UNCHANGED <<buffer, shown, asked, sent, to_client, server, documents>>

(* The editor takes the server's next message. *)
Receive ==
    /\ to_client # <<>>
    /\ to_client' = Tail(to_client)
    /\ LET m == Head(to_client) IN
       \/ /\ m.op = "publishDiagnostics"
          /\ shown' = [shown EXCEPT ![m.uri] = m.diagnostics]
          /\ UNCHANGED asked
       \/ /\ m.op = "response"
          /\ asked' = {a \in asked : a.id # m.id}
          /\ UNCHANGED shown
    /\ UNCHANGED <<editor, buffer, sent, to_server, server, documents>>

-----------------------------------------------------------------------------
(* The server: each action is the handling of one message.                 *)

Message == Head(to_server)

Handling(state, op) ==
    /\ server = state /\ to_server # <<>> /\ Message.op = op
    /\ to_server' = Tail(to_server)
    /\ UNCHANGED client

HandlingRequest(state, ops) ==
    Handling(state, "request") /\ Message.req.op \in ops

Send(m) == to_client' = Append(to_client, m)

Publish(u, diagnostics) ==
    [op |-> "publishDiagnostics", uri |-> u, diagnostics |-> diagnostics]

Respond(result) ==
    Send([op |-> "response", id |-> Message.id, result |-> result])

(* initialize_start and initialize_finish. *)
InitializeStart ==
    /\ HandlingRequest("waiting", {"initialize"})
    /\ Respond(Null) /\ server' = "finishing"
    /\ UNCHANGED documents

InitializeFinish ==
    /\ Handling("finishing", "initialized")
    /\ server' = "running"
    /\ UNCHANGED <<to_client, documents>>

(* update_document: check, publish, keep. *)
UpdateDocument(u, t) ==
    /\ Send(Publish(u, Diagnostics(t)))
    /\ documents' = [documents EXCEPT ![u] = t]

DidOpen ==
    /\ Handling("running", "didOpen")
    /\ UpdateDocument(Message.uri, Message.text)
    /\ UNCHANGED server

(* A seeded defect: the first change of a notification is taken. *)
DidChangeFirst ==
    /\ Handling("running", "didChange")
    /\ IF Message.changes = <<>> THEN UNCHANGED <<to_client, documents>>
       ELSE UpdateDocument(Message.uri, Message.changes[1])
    /\ UNCHANGED server

DidChange ==
    /\ Handling("running", "didChange")
    /\ IF Message.changes = <<>> THEN UNCHANGED <<to_client, documents>>
       ELSE UpdateDocument(Message.uri, Message.changes[Len(Message.changes)])
    /\ UNCHANGED server

DidSave ==
    /\ Handling("running", "didSave")
    /\ UNCHANGED <<to_client, server, documents>>

(* A seeded defect: the document stays. *)
DidCloseKeeps ==
    /\ Handling("running", "didClose")
    /\ Send(Publish(Message.uri, {}))
    /\ UNCHANGED <<server, documents>>

DidClose ==
    /\ Handling("running", "didClose")
    /\ documents' = [documents EXCEPT ![Message.uri] = Closed]
    /\ Send(Publish(Message.uri, {}))
    /\ UNCHANGED server

(* A seeded defect: a request the server does not know is dropped, like a  *)
(* notification it does not know.                                          *)
HandleRequestKnown ==
    /\ HandlingRequest("running", {"query", "rename", "unknown"})
    /\ IF Message.req.op = "unknown" THEN UNCHANGED to_client
       ELSE Respond(Answer(documents, Message.req))
    /\ UNCHANGED <<server, documents>>

(* A feature answers from the documents; an unknown method is answered     *)
(* with an error.                                                          *)
HandleRequest ==
    /\ HandlingRequest("running", {"query", "rename", "unknown"})
    /\ Respond(Answer(documents, Message.req))
    /\ UNCHANGED <<server, documents>>

(* Parameters that do not parse are an error of the loop, which ends. *)
HandleMalformed ==
    /\ HandlingRequest("running", {"malformed"})
    /\ server' = "failed"
    /\ UNCHANGED <<to_client, documents>>

(* handle_shutdown answers, then waits for `exit` alone, for a while. *)
HandleShutdown ==
    /\ HandlingRequest("running", {"shutdown"})
    /\ Respond(Null) /\ server' = "leaving"
    /\ UNCHANGED documents

HandleExit ==
    /\ Handling("leaving", "exit")
    /\ server' = "stopped"
    /\ UNCHANGED <<to_client, documents>>

ExitTimesOut ==
    /\ server = "leaving" /\ to_server = <<>>
    /\ server' = "failed"
    /\ UNCHANGED <<client, to_server, to_client, documents>>

-----------------------------------------------------------------------------
Editor ==
    \/ Initialize \/ Initialized
    \/ \E u \in Uris :
          \/ \E t \in TextsOf[u] : OpenDocument(u, t)
          \/ \E n \in 0 .. MaxBatch : \E s \in [1 .. n -> TextsOf[u]] : Edit(u, s)
          \/ SaveDocument(u)
          \/ CloseDocument(u)
          \/ Ask([op |-> "query", uri |-> u])
          \/ /\ buffer[u] # Closed
             /\ \E b \in Bindings(buffer[u]), new \in NewNames \cup {BadName} :
                   AskRename(u, b, new)
    \/ Ask([op |-> "unknown"])
    \/ Ask([op |-> "malformed"])
    \/ Quit \/ SendExit

Serve ==
    \/ InitializeStart \/ InitializeFinish
    \/ DidOpen \/ DidChange \/ DidSave \/ DidClose
    \/ HandleRequest \/ HandleMalformed
    \/ HandleShutdown \/ HandleExit

Next == Editor \/ Receive \/ Serve \/ ExitTimesOut

Spec == Init /\ [][Next]_vars

(* The server's loop takes the next message whenever there is one, and     *)
(* the editor reads what the server writes.  Nothing makes the user act.   *)
FairSpec == Spec /\ WF_vars(Serve) /\ WF_vars(Receive)

-----------------------------------------------------------------------------
(* Properties.                                                             *)

Settled == to_server = <<>> /\ to_client = <<>>

(* The variables have their types, and the server never holds a document   *)
(* the editor could not have given that text.                              *)
TypeOK ==
    /\ editor \in {"new", "starting", "ready", "quitting", "gone"}
    /\ server \in {"waiting", "finishing", "running", "leaving", "stopped",
                   "failed"}
    /\ \A u \in Uris :
          /\ buffer[u] \in TextsOf[u] \cup {Closed}
          /\ documents[u] \in TextsOf[u] \cup {Closed}
          /\ shown[u] \subseteq TextsOf[u]
    /\ sent \in 0 .. MaxSends
    /\ \A a \in asked : a.id \in 0 .. (MaxSends - 1)

(* publishDiagnostics carries no version, so the editor cannot tell a late *)
(* one from a current one: once nothing is under way, what it shows is     *)
(* what its buffers deserve, whatever was opened, edited in one batch or   *)
(* closed while the server was behind.                                     *)
DiagnosticsSettle ==
    Settled /\ server # "failed" =>
        \A u \in Uris : shown[u] = Diagnostics(buffer[u])

(* A response speaks of the documents as the user saw them when asking:    *)
(* edits that are already queued before the request are applied first,     *)
(* later ones are not.                                                     *)
AnswersWhatWasAsked ==
    \A i \in DOMAIN to_client : to_client[i].op = "response" =>
        \E a \in asked :
            a.id = to_client[i].id /\ to_client[i].result = Answer(a.basis, a.req)

(* The response to a request the editor waits for, if it is under way. *)
ResultOf(a) ==
    {m.result : m \in {x \in {to_client[i] : i \in DOMAIN to_client} :
                          x.op = "response" /\ x.id = a.id}} \ {Null}

Renames == {a \in asked : a.req.op = "rename"}

(* The import finds what it names. *)
Linked(texts, i) ==
    /\ texts[i.from] # Closed
    /\ \E d \in texts[i.from].defs : d.as = i.imported

(* The documents all of whose imports do. *)
WholeDocuments(texts) ==
    {u \in Uris : texts[u] # Closed /\ \A i \in texts[u].imports : Linked(texts, i)}

Applied(texts, edits) ==
    [u \in Uris |-> IF u \in DOMAIN edits THEN edits[u] ELSE texts[u]]

(* Renaming a binding that is exported under its own name breaks no import *)
(* of an open document, aliased or not: the edits of all documents fit     *)
(* together.                                                               *)
RenameKeepsLinks ==
    \A a \in Renames : a.req.at.is = "decl" /\ a.req.at.it.as = a.req.at.it.name =>
        \A edits \in ResultOf(a) :
            WholeDocuments(a.basis) \subseteq WholeDocuments(Applied(a.basis, edits))

(* When the user pauses, the server catches up, unless it fails: every     *)
(* request has been answered, an unknown one too, and the diagnostics are  *)
(* those of the buffers and stay so.                                       *)
CatchesUp ==
    <>[](server # "failed" => /\ asked = {}
                              /\ \A u \in Uris : shown[u] = Diagnostics(buffer[u]))
=============================================================================
