---------------------------- MODULE ModuleLoader ----------------------------
(***************************************************************************)
(* The loader of JavaScript modules (modules.rs) and the commands of the   *)
(* CLI that drive it (inty-cli/src/main.rs):                               *)
(*                                                                         *)
(*   check_many     inty a.js b.js ...    check_entry for each file        *)
(*   run_inference  inty a.js             resolve_imports, then the file   *)
(*   check_module   inty bundle, inty declarations                         *)
(*                                                                         *)
(* Loading is a recursion: load_module -> resolve_imports or               *)
(* compute_export_table -> load_imported -> load_module.  Its call stack   *)
(* is the variable `stack`, one frame per load_module call under way, and  *)
(* `flow` says how the innermost call went on: it runs, a load it asked    *)
(* for has returned, or an error is propagating (`?`) to the caller.       *)
(*                                                                         *)
(* A module's text is abstracted to its `import` and `export ... from`     *)
(* clauses, in order; it is chosen when the file is first read and does    *)
(* not change during the run.  What inference makes of the module, and     *)
(* whether a clause asks for a name the target exports, is a choice of     *)
(* each step: both depend on the environment the importer passed in.       *)
(***************************************************************************)
EXTENDS Sequences, Integers, FiniteSets

CONSTANTS
    Mods,          \* canonical paths of the module files
    NoFile,        \* what a specifier that resolve_path cannot resolve names
    Foreign,       \* an entry file in another language
    NoSource,      \* current_source = None: the entry file
    MaxImports,    \* bound on the import clauses of a module
    MaxReexports,  \* bound on its re-export clauses
    MaxClauses,    \* bound on both together
    MaxEntries     \* bound on the files of one command line

ASSUME LoaderAssumption ==
    /\ IsFiniteSet(Mods) /\ Mods \cap {NoFile, Foreign, NoSource} = {}
    /\ MaxImports \in Nat /\ MaxReexports \in Nat /\ MaxClauses \in Nat
    /\ MaxEntries \in Nat

VARIABLES
    command,         \* the CLI command being run
    files,           \* the entry files it has still to check
    text,            \* what has been read of each file
    stack,           \* load_module calls under way, innermost last
    flow,            \* how the innermost of them goes on
    visiting,        \* the set of paths being resolved
    module_cache,    \* InferState::module_cache (its keys)
    failed_modules,  \* InferState::failed_modules
    current_source,  \* InferState::current_source
    errors,          \* InferState::errors with error_sources
    failed,          \* check_many's count of bad files is not zero
    printed,         \* diagnostics shown to the user
    exit,            \* "running", then "success" or "failure"
    loads            \* how often each module has been read and checked

cli == <<command, files, failed, printed, exit>>
verdicts == <<module_cache, failed_modules>>
vars == <<cli, text, stack, flow, visiting, verdicts, current_source, errors,
          loads>>

-----------------------------------------------------------------------------
(* Texts, frames, errors.                                                  *)

SeqsUpTo(S, n) == UNION {[1 .. k -> S] : k \in 0 .. n}

Programs == {p \in [is: {"program"},
                    imports: SeqsUpTo(Mods \cup {NoFile}, MaxImports),
                    reexports: SeqsUpTo(Mods \cup {NoFile}, MaxReexports)] :
                Len(p.imports) + Len(p.reexports) <= MaxClauses}

Bad(why) == [is |-> why, imports |-> <<>>, reexports |-> <<>>]
Unread == Bad("unread")
Texts == Programs \cup {Bad("unreadable"), Bad("syntax error")}

(* A load_module call, or resolve_imports for the file run_inference was   *)
(* given: which module, for whom, and current_source before it.            *)
Call == [mod: Mods, via: {"import", "reexport", "many", "module", "file"},
         prev: Mods \cup {NoSource}]

(* `at` is the module whose text the error's span points into. *)
Error == [kind: {"unreadable", "syntax", "unresolved", "circular",
                 "no export", "type"},
          at: Mods, to: Mods \cup {NoFile}]

Located == [error: Error, source: Mods \cup {NoSource}]

Running == [is |-> "running"]
Returned == [is |-> "returned"]
Raised(e, c) == [is |-> "raised", error |-> e, call |-> c]

Top == stack[Len(stack)]
Below == SubSeq(stack, 1, Len(stack) - 1)

CallOf(f) == [mod |-> f.mod, via |-> f.via, prev |-> f.prev]

Clauses(f) == IF f.phase = "imports" THEN text[f.mod].imports
                                     ELSE text[f.mod].reexports
Clause == Clauses(Top)[Top.next]

Advance(s) == [s EXCEPT ![Len(s)].next = @ + 1]

Recorded(e) == [error |-> e, source |-> current_source]

-----------------------------------------------------------------------------
(* load_module.                                                            *)

(* The file is read and parsed.  A read error is raised before             *)
(* current_source and visiting are touched, a syntax error between the     *)
(* two.  (`asker` is the module whose clause, or command line, asked.)     *)
LoadModule(m, via, asker) ==
    LET call == [mod |-> m, via |-> via, prev |-> current_source] IN
    \E t \in IF text[m] = Unread THEN Texts ELSE {text[m]} :
        /\ text' = [text EXCEPT ![m] = t]
        /\ loads' = [loads EXCEPT ![m] = @ + 1]
        /\ \/ /\ t.is = "unreadable"
              /\ flow' = Raised([kind |-> "unreadable", at |-> asker, to |-> m],
                                call)
              /\ UNCHANGED <<stack, visiting, current_source>>
           \/ /\ t.is = "syntax error"
              /\ current_source' = m
              /\ flow' = Raised([kind |-> "syntax", at |-> m, to |-> m], call)
              /\ UNCHANGED <<stack, visiting>>
           \/ /\ t.is = "program"
              /\ current_source' = m
              /\ visiting' = visiting \cup {m}
              /\ stack' = Append(stack, [mod |-> m, via |-> via,
                                         prev |-> current_source,
                                         phase |-> "imports", next |-> 1])
              /\ flow' = Running

(* An error in the innermost module ends its load_module: `?`.  Nothing    *)
(* is undone: visiting keeps the module and current_source stays on it.    *)
Raise(e) ==
    /\ flow' = Raised(e, CallOf(Top))
    /\ stack' = Below

ErrorHere(kind, to) == [kind |-> kind, at |-> Top.mod, to |-> to]

InPhase(p) == stack # <<>> /\ flow = Running /\ Top.phase = p

AtClause(p) == InPhase(p) /\ Top.next <= Len(Clauses(Top))

-----------------------------------------------------------------------------
(* resolve_imports: one clause at a time.                                  *)

ImportUnresolved ==
    /\ AtClause("imports") /\ Clause = NoFile
    /\ Raise(ErrorHere("unresolved", NoFile))
    /\ UNCHANGED <<cli, text, visiting, verdicts, current_source, errors, loads>>

(* Mutant: a cycle is taken for a module already loaded. *)
ImportCircularIgnored ==
    /\ AtClause("imports") /\ Clause \in visiting
    /\ stack' = Advance(stack)
    /\ UNCHANGED <<cli, text, flow, visiting, verdicts, current_source, errors,
                   loads>>

ImportCircular ==
    /\ AtClause("imports") /\ Clause \in visiting
    /\ Raise(ErrorHere("circular", Clause))
    /\ UNCHANGED <<cli, text, visiting, verdicts, current_source, errors, loads>>

(* Mutant: the loop does not go on to the next clause. *)
ImportFailedStays ==
    /\ AtClause("imports") /\ Clause \in Mods \ visiting
    /\ Clause \in failed_modules
    /\ UNCHANGED vars

(* Its importers go on with what it would have bound typed Error. *)
ImportFailed ==
    /\ AtClause("imports") /\ Clause \in Mods \ visiting
    /\ Clause \in failed_modules
    /\ stack' = Advance(stack)
    /\ UNCHANGED <<cli, text, flow, visiting, verdicts, current_source, errors,
                   loads>>

(* load_imported: a module checked this run is reused, another is loaded.  *)
LoadImported(m, via) ==
    \/ /\ m \in module_cache
       /\ flow' = Returned
       /\ UNCHANGED <<text, stack, visiting, current_source, loads>>
    \/ /\ m \notin module_cache
       /\ LoadModule(m, via, Top.mod)

(* Mutant: the cycle check is missing. *)
ImportLoadAnyway ==
    /\ AtClause("imports") /\ Clause \in Mods \ failed_modules
    /\ LoadImported(Clause, "import")
    /\ UNCHANGED <<cli, verdicts, errors>>

(* Mutant: a module that failed is tried again. *)
ImportLoadAgain ==
    /\ AtClause("imports") /\ Clause \in Mods \ visiting
    /\ LoadImported(Clause, "import")
    /\ UNCHANGED <<cli, verdicts, errors>>

ImportLoad ==
    /\ AtClause("imports") /\ Clause \in Mods \ visiting
    /\ Clause \notin failed_modules
    /\ LoadImported(Clause, "import")
    /\ UNCHANGED <<cli, verdicts, errors>>

(* Mutant: what was loaded is bound to the next clause as well. *)
BindNamesTwice ==
    /\ flow = Returned /\ stack # <<>>
    /\ stack' = Advance(stack)
    /\ UNCHANGED <<cli, text, flow, visiting, verdicts, current_source, errors,
                   loads>>

(* The names a clause asks for are looked up in the loaded module's        *)
(* export table: all found, or the first that is not raises.               *)
BindNames ==
    /\ flow = Returned /\ stack # <<>>
    /\ \/ stack' = Advance(stack) /\ flow' = Running
       \/ Raise(ErrorHere("no export", Clause))
    /\ UNCHANGED <<cli, text, visiting, verdicts, current_source, errors, loads>>

(* Mutant: the attribution is left on the module that failed. *)
CatchImportUnattributed ==
    /\ flow.is = "raised" /\ flow.call.via = "import"
    /\ errors' = errors \cup {Recorded(flow.error)}
    /\ visiting' = visiting \ {flow.call.mod}
    /\ failed_modules' = failed_modules \cup {flow.call.mod}
    /\ stack' = Advance(stack) /\ flow' = Running
    /\ UNCHANGED <<cli, text, module_cache, current_source, loads>>

(* Mutant: the failure is remembered, the error is not. *)
CatchImportSilent ==
    /\ flow.is = "raised" /\ flow.call.via = "import"
    /\ current_source' = flow.call.prev
    /\ visiting' = visiting \ {flow.call.mod}
    /\ failed_modules' = failed_modules \cup {flow.call.mod}
    /\ stack' = Advance(stack) /\ flow' = Running
    /\ UNCHANGED <<cli, text, module_cache, errors, loads>>

(* An import whose module failed: the error is recorded where it was       *)
(* raised, and the importer goes on.                                       *)
CatchImport ==
    /\ flow.is = "raised" /\ flow.call.via = "import"
    /\ errors' = errors \cup {Recorded(flow.error)}
    /\ current_source' = flow.call.prev
    /\ visiting' = visiting \ {flow.call.mod}
    /\ failed_modules' = failed_modules \cup {flow.call.mod}
    /\ stack' = Advance(stack) /\ flow' = Running
    /\ UNCHANGED <<cli, text, module_cache, loads>>

-----------------------------------------------------------------------------
(* Inference of the module, once its imports are bound.                    *)

ImportsBound == InPhase("imports") /\ Top.next > Len(Clauses(Top))

(* infer_program_with_env and resolve_constraints_keeping succeed.  What   *)
(* infer_program_with_env finds after its statement list (a use before     *)
(* initialisation) is recorded without failing the module.                 *)
InferOk ==
    /\ ImportsBound /\ Top.via # "file"
    /\ \/ UNCHANGED errors
       \/ errors' = errors \cup {Recorded(ErrorHere("type", Top.mod))}
    /\ stack' = Append(Below, [Top EXCEPT !.phase = "exports", !.next = 1])
    /\ UNCHANGED <<cli, text, flow, visiting, verdicts, current_source, loads>>

(* The statement list re-raises the first error it recorded; one raised    *)
(* before any statement (a type alias), or by resolve_constraints_keeping, *)
(* is not recorded.                                                        *)
InferFails ==
    /\ ImportsBound /\ Top.via # "file"
    /\ \/ UNCHANGED errors
       \/ errors' = errors \cup {Recorded(ErrorHere("type", Top.mod))}
    /\ Raise(ErrorHere("type", Top.mod))
    /\ UNCHANGED <<cli, text, visiting, verdicts, current_source, loads>>

-----------------------------------------------------------------------------
(* compute_export_table: one `export ... from` clause at a time.           *)

ReexportUnresolved ==
    /\ AtClause("exports") /\ Clause = NoFile
    /\ Raise(ErrorHere("unresolved", NoFile))
    /\ UNCHANGED <<cli, text, visiting, verdicts, current_source, errors, loads>>

ReexportCircular ==
    /\ AtClause("exports") /\ Clause \in visiting
    /\ Raise(ErrorHere("circular", Clause))
    /\ UNCHANGED <<cli, text, visiting, verdicts, current_source, errors, loads>>

(* Mutant: the re-exports of a failed module are left out. *)
ReexportLoadSkipsFailed ==
    /\ AtClause("exports") /\ Clause \in Mods \ visiting
    /\ \/ /\ Clause \in failed_modules /\ stack' = Advance(stack)
          /\ UNCHANGED <<text, flow, visiting, current_source, loads>>
       \/ /\ Clause \notin failed_modules /\ LoadImported(Clause, "reexport")
    /\ UNCHANGED <<cli, verdicts, errors>>

(* failed_modules is not looked at here. *)
ReexportLoad ==
    /\ AtClause("exports") /\ Clause \in Mods \ visiting
    /\ LoadImported(Clause, "reexport")
    /\ UNCHANGED <<cli, verdicts, errors>>

(* An error in a re-exported module is the re-exporting module's: `?`. *)
PropagateReexport ==
    /\ flow.is = "raised" /\ flow.call.via = "reexport"
    /\ Raise(flow.error)
    /\ UNCHANGED <<cli, text, visiting, verdicts, current_source, errors, loads>>

ExportsDone == InPhase("exports") /\ Top.next > Len(Clauses(Top))

(* load_module returns to load_imported, which caches what it returned. *)
ReturnModule ==
    /\ ExportsDone /\ Top.via \in {"import", "reexport"}
    /\ visiting' = visiting \ {Top.mod}
    /\ current_source' = Top.prev
    /\ module_cache' = module_cache \cup {Top.mod}
    /\ stack' = Below /\ flow' = Returned
    /\ UNCHANGED <<cli, text, failed_modules, errors, loads>>

-----------------------------------------------------------------------------
(* check_many: check_entry for each file, sharing one state.               *)

Idle == stack = <<>> /\ flow = Running /\ exit = "running"

(* An error of no source is shown in the file the command is checking. *)
Shown(diagnostics) ==
    {[l EXCEPT !.source = IF @ = NoSource THEN Head(files) ELSE @] :
        l \in diagnostics}

(* The file's diagnostics are taken and shown; the next file starts with   *)
(* an empty visiting set.                                                  *)
EndEntry(diagnostics) ==
    /\ printed' = printed \cup Shown(diagnostics)
    /\ errors' = {} /\ visiting' = {}
    /\ failed' = (failed \/ diagnostics # {})
    /\ current_source' = NoSource
    /\ files' = Tail(files) /\ flow' = Running

ForeignEntry ==
    /\ command = "many" /\ Idle /\ files # <<>> /\ Head(files) = Foreign
    /\ files' = Tail(files) /\ failed' = TRUE
    /\ UNCHANGED <<command, printed, exit, text, stack, flow, visiting, verdicts,
                   current_source, errors, loads>>

(* Already checked this run, as another entry or imported by one. *)
SkipEntry ==
    /\ command = "many" /\ Idle /\ files # <<>>
    /\ Head(files) \in module_cache \cup failed_modules
    /\ EndEntry(errors)
    /\ UNCHANGED <<command, exit, text, stack, verdicts, loads>>

StartEntry ==
    /\ command = "many" /\ Idle /\ files # <<>>
    /\ Head(files) \in Mods \ (module_cache \cup failed_modules)
    /\ LoadModule(Head(files), "many", Head(files))
    /\ UNCHANGED <<cli, verdicts, errors>>

EntryOk ==
    /\ ExportsDone /\ Top.via = "many"
    /\ module_cache' = module_cache \cup {Top.mod}
    /\ stack' = Below
    /\ EndEntry(errors)
    /\ UNCHANGED <<command, exit, text, failed_modules, loads>>

EntryFails ==
    /\ flow.is = "raised" /\ flow.call.via = "many"
    /\ failed_modules' = failed_modules \cup {flow.call.mod}
    /\ EndEntry(IF \E l \in errors : l.error = flow.error
                    THEN errors ELSE errors \cup {Recorded(flow.error)})
    /\ UNCHANGED <<command, exit, text, stack, module_cache, loads>>

(* resolve_constraints at the end of the command may find a last error. *)
AllChecked ==
    /\ command = "many" /\ Idle /\ files = <<>>
    /\ \E solved \in BOOLEAN :
           exit' = IF solved /\ ~failed THEN "success" ELSE "failure"
    /\ UNCHANGED <<command, files, failed, printed, text, stack, flow, visiting,
                   verdicts, current_source, errors, loads>>

-----------------------------------------------------------------------------
(* check_module, for `inty bundle` and `inty declarations`.                *)

Exit(code, diagnostics) ==
    /\ exit' = code /\ printed' = Shown(diagnostics)
    /\ stack' = <<>> /\ flow' = Running
    /\ UNCHANGED <<command, files, failed, text, visiting, verdicts, current_source,
                   errors, loads>>

StartModule ==
    /\ command = "module" /\ Idle
    /\ LoadModule(Head(files), "module", Head(files))
    /\ UNCHANGED <<cli, verdicts, errors>>

(* Only the Result is looked at: what the load recorded in errors is not.  *)
ModuleOk ==
    /\ ExportsDone /\ Top.via = "module"
    /\ \/ Exit("success", {})
       \/ Exit("failure", {[error |-> ErrorHere("type", Top.mod),
                            source |-> NoSource]})

ModuleFails ==
    /\ flow.is = "raised" /\ flow.call.via = "module"
    /\ Exit("failure", {[error |-> flow.error, source |-> NoSource]})

-----------------------------------------------------------------------------
(* run_inference, for `inty a.js`: the entry file is parsed and inferred   *)
(* by the command itself, never a member of visiting, and its re-exports   *)
(* are not resolved.                                                       *)

StartFile ==
    /\ command = "file" /\ Idle
    /\ LET m == Head(files) IN
       /\ \E t \in Programs :
             /\ text' = [text EXCEPT ![m] = t]
             /\ stack' = <<[mod |-> m, via |-> "file", prev |-> NoSource,
                            phase |-> "imports", next |-> 1]>>
    /\ UNCHANGED <<cli, flow, visiting, verdicts, current_source, errors, loads>>

FileSyntaxError ==
    /\ command = "file" /\ Idle
    /\ Exit("failure", {[error |-> [kind |-> "syntax", at |-> Head(files),
                                    to |-> Head(files)],
                         source |-> NoSource]})

(* resolve_imports failed: only the propagated error is shown. *)
FileFails ==
    /\ flow.is = "raised" /\ flow.call.via = "file"
    /\ Exit("failure", {Recorded(flow.error)})

FileInferred ==
    /\ ImportsBound /\ Top.via = "file"
    /\ LET own == {[error |-> ErrorHere("type", Top.mod), source |-> NoSource]}
       IN \/ errors = {} /\ Exit("success", {})
          \/ errors # {} /\ Exit("failure", errors)
          \/ Exit("failure", errors \cup own)

-----------------------------------------------------------------------------
Init ==
    /\ \/ command = "many"
          /\ files \in SeqsUpTo(Mods \cup {Foreign}, MaxEntries)
          /\ Len(files) >= 2
       \/ command \in {"module", "file"} /\ files \in [{1} -> Mods]
    /\ text = [m \in Mods |-> Unread]
    /\ stack = <<>> /\ flow = Running
    /\ visiting = {} /\ module_cache = {} /\ failed_modules = {}
    /\ current_source = NoSource /\ errors = {}
    /\ failed = FALSE /\ printed = {} /\ exit = "running"
    /\ loads = [m \in Mods |-> 0]

ResolveImports ==
    \/ ImportUnresolved \/ ImportCircular \/ ImportFailed \/ ImportLoad
    \/ BindNames \/ CatchImport

ComputeExportTable ==
    \/ ReexportUnresolved \/ ReexportCircular \/ ReexportLoad
    \/ PropagateReexport

Commands ==
    \/ ForeignEntry \/ SkipEntry \/ StartEntry \/ EntryOk \/ EntryFails
    \/ AllChecked
    \/ StartModule \/ ModuleOk \/ ModuleFails
    \/ StartFile \/ FileSyntaxError \/ FileFails \/ FileInferred

Next ==
    \/ ResolveImports \/ InferOk \/ InferFails \/ ComputeExportTable
    \/ ReturnModule \/ Commands

Spec == Init /\ [][Next]_vars

(* The loader is one thread that runs until it returns. *)
FairSpec == Spec /\ WF_vars(Next)

-----------------------------------------------------------------------------
(* Properties.                                                             *)

Frame == [mod: Mods, via: {"import", "reexport", "many", "module", "file"},
          prev: Mods \cup {NoSource}, phase: {"imports", "exports"},
          next: Nat \ {0}]

(* The variables have their types; a frame stands at one of its module's   *)
(* clauses or just after the last, and at one while a load it asked for is *)
(* under way, returns or fails.                                            *)
TypeOK ==
    /\ command \in {"many", "module", "file"}
    /\ files \in Seq(Mods \cup {Foreign})
    /\ text \in [Mods -> Texts \cup {Unread}]
    /\ stack \in Seq(Frame)
    /\ flow \in {Running, Returned} \/ flow \in [is: {"raised"}, error: Error, call: Call]
    /\ visiting \subseteq Mods
    /\ module_cache \subseteq Mods /\ failed_modules \subseteq Mods
    /\ current_source \in Mods \cup {NoSource}
    /\ errors \subseteq Located /\ printed \subseteq Located
    /\ failed \in BOOLEAN /\ exit \in {"running", "success", "failure"}
    /\ loads \in [Mods -> Nat]
    /\ \A i \in DOMAIN stack :
          /\ text[stack[i].mod].is = "program"
          /\ stack[i].next <= Len(Clauses(stack[i])) + 1
          /\ (i < Len(stack) \/ flow # Running) =>
                stack[i].next <= Len(Clauses(stack[i]))

(* Cycle detection works: no module is loaded from inside its own load     *)
(* (run_inference's file, which is not a module of the run, aside), so     *)
(* the recursion of load_module is never deeper than there are modules.    *)
NoReentry ==
    \A i, j \in DOMAIN stack :
        i # j /\ stack[i].mod = stack[j].mod =>
            "file" \in {stack[i].via, stack[j].via}

(* push_error tags an error with current_source, which load_module leaves  *)
(* on the module that failed "for the caller that reports the propagated   *)
(* error" and resolve_imports puts back: whatever fails, however deep, an  *)
(* error is recorded and shown in the file its span points into.           *)
AttributionRight ==
    /\ \A l \in errors :
          l.error.at = IF l.source = NoSource THEN Head(files) ELSE l.source
    /\ command # "module" => \A l \in printed : l.source = l.error.at

(* A module handed to importers from the cache is complete: what it        *)
(* imports has been checked, with either verdict, and what it re-exports   *)
(* has been checked successfully.                                          *)
CacheComplete ==
    \A m \in module_cache :
        /\ \A i \in DOMAIN text[m].imports :
              text[m].imports[i] \in module_cache \cup failed_modules
        /\ \A i \in DOMAIN text[m].reexports :
              text[m].reexports[i] \in module_cache

(* Success of `inty a.js` and `inty a.js b.js` covers the modules too: no  *)
(* module that failed, or in which an error was found, is lost because     *)
(* its importers went on without it.                                       *)
SuccessMeansChecked ==
    exit = "success" /\ command # "module" =>
        /\ failed_modules = {} /\ printed = {} /\ errors = {}
        /\ \A m \in Mods : loads[m] > 0 => m \in module_cache

(* A clause of m names n. *)
Refers(m, n) ==
    \/ \E i \in DOMAIN text[m].imports : text[m].imports[i] = n
    \/ \E i \in DOMAIN text[m].reexports : text[m].reexports[i] = n

(* m imports or re-exports n, directly or through other modules: there is  *)
(* a path, and one no longer than there are modules.                       *)
Reaches(m, n) ==
    \E k \in 1 .. Cardinality(Mods) : \E p \in [0 .. k -> Mods] :
        p[0] = m /\ p[k] = n /\ \A i \in 1 .. k : Refers(p[i - 1], p[i])

(* A successful run of check_many has seen no cycle: each import graph     *)
(* with one is reported, whichever of its modules is reached first.        *)
(* (run_inference does not resolve its file's re-exports.)                 *)
CyclesAreFound ==
    exit = "success" /\ command = "many" => \A m \in Mods : ~Reaches(m, m)

(* visiting is the set of modules being resolved, so what is reported as   *)
(* circular is circular: the module named leads back to the one whose      *)
(* clause names it.                                                        *)
CyclesAreReal ==
    \A l \in errors \cup printed :
        l.error.kind = "circular" => Reaches(l.error.to, l.error.at)

(* A checked module is never checked again; a failed one only by a module  *)
(* that re-exports from it.                                                *)
RecheckedOnlyByReexport ==
    [][\A m \in Mods : loads'[m] # loads[m] =>
          /\ m \notin module_cache
          /\ m \in failed_modules => stack # <<>> /\ Top.phase = "exports"]_vars

(* However the imports of the modules form cycles, every command ends. *)
Terminates == <>(exit # "running")
=============================================================================
