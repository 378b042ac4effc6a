------------------------------- MODULE Templates -------------------------------
(***************************************************************************)
(* The templates of an application (Templates) and the detection of their  *)
(* changes: the idle timer's thread compares the files with what has been  *)
(* loaded and, if it finds a change, loads all of them again, under the    *)
(* lock that the request handlers take to get one.  Files are edited by    *)
(* others at any time, also in the middle of a load.                       *)
(*                                                                         *)
(* A template is known by its file; its content is a version number and    *)
(* the templates that it includes.  Parsing it takes these from the ones   *)
(* that are loaded so far.  What else the parser (inja) does is external.  *)
(* Time is in seconds, as time(nullptr) and last_write_time have it.       *)
(*                                                                         *)
(* Init, Next, Spec and TypeOK have the prefix Templates here, so that a   *)
(* module can extend this one beside IdleTimer, which calls the detection. *)
(***************************************************************************)
EXTENDS Naturals

CONSTANTS
    Files,          \* the names of template files
    Includes,       \* the ones in a directory "i", loaded first
    MaxTime,        \* bound: the clock
    MaxEdits,       \* bound: edits, which number the versions
    MaxFails        \* bound: loads that end with an exception

ASSUME TemplatesAssumption == /\ Includes \subseteq Files
                              /\ MaxTime \in Nat \ {0}
                              /\ MaxEdits \in Nat
                              /\ MaxFails \in Nat

VARIABLES
    clock,
    dir,            \* the directory: version, last write time, whether the text is
                    \* right, and what it includes
    edits,          \* edits so far
    loaded,         \* _templates and _includes_templates: the version of each
    loaded_time,    \* _loaded_time
    phase,          \* the thread of the detection
    lock,           \* _m: held by Preload, or free
    todo,           \* files that the directory iterator still has to give
    read,           \* files that it has given
    fails,          \* loads that have ended with an exception
    settled,        \* files that were loaded as they are, and have not been edited
                    \* since, nor has what they include
    racy            \* files written after they were loaded, not later than loaded_time

dirVars  == <<clock, dir, edits>>
loadVars == <<loaded, lock, todo, read>>
templatesVars == <<clock, dir, edits, loaded, loaded_time, phase, lock, todo, read, fails,
                   settled, racy>>

None == 0   \* no version: the file does not exist, or is not loaded

Absent == [ver |-> None, mtime |-> 0, text |-> "bad", uses |-> {}]

Exists(f) == dir[f] # Absent

\* What f includes can be loaded before f, in whatever order files are found.
Flat(f) == /\ f \in Includes => dir[f].uses = {}
           /\ \A i \in dir[f].uses : dir[i].uses = {}

\* What a load should make of file f: the template, if it and what it includes are
\* there and parse.
Wanted(f) == IF \A g \in {f} \cup dir[f].uses : dir[g].text = "good" THEN dir[f].ver ELSE None

\* _loaded_time is not initialised: its value may be in the past or in the
\* future.  The application calls Preload.
TemplatesInit == /\ clock = 1
                 /\ dir = [f \in Files |-> Absent]
                 /\ edits = 0
                 /\ loaded = [f \in Files |-> None]
                 /\ loaded_time \in {0, MaxTime + 1}
                 /\ phase = "setup"
                 /\ lock = "free"
                 /\ todo = {}
                 /\ read = {}
                 /\ fails = 0
                 /\ settled = {}
                 /\ racy = {}

-------------------------------------------------------------------------------
(* Loading *)

\* Mutant: the maps are cleared before the lock is taken.
Preload_clears_first ==
    \/ /\ phase \in {"setup", "update", "append"}
       /\ loaded # [f \in Files |-> None]
       /\ loaded' = [f \in Files |-> None]
       /\ UNCHANGED <<dirVars, loaded_time, phase, lock, todo, read, fails, settled, racy>>
    \/ /\ phase \in {"setup", "update", "append"}
       /\ lock' = "held"
       /\ loaded' = [f \in Files |-> None]
       /\ todo' = {f \in Includes : Exists(f)}
       /\ read' = {}
       /\ phase' = IF phase = "update" THEN "includes" ELSE "includes again"
       /\ UNCHANGED <<dirVars, loaded_time, fails, settled, racy>>

\* Preload takes the lock and clears the maps; the iterator starts on the
\* directory, first for the templates to include.
Preload ==
    /\ phase \in {"setup", "update", "append"}
    /\ lock' = "held"
    /\ loaded' = [f \in Files |-> None]
    /\ todo' = {f \in Includes : Exists(f)}
    /\ read' = {}
    /\ phase' = IF phase = "update" THEN "includes" ELSE "includes again"
    /\ UNCHANGED <<dirVars, loaded_time, fails, settled, racy>>

IncludePhases == {"includes", "includes again"}
NormalPhases  == {"normals", "normals again"}

\* The text of f is right, and what it includes has been loaded: otherwise the
\* parser opens a file of that name, finds none and throws.
Parses(f) == dir[f].text = "good" /\ \A i \in dir[f].uses : loaded[i] # None

\* The iterator comes to file f, which may have been created since: it is read
\* and, if it parses, kept.
try_load_template(f) ==
    /\ phase \in (IF f \in Includes THEN IncludePhases ELSE NormalPhases)
    /\ f \notin read
    /\ Exists(f)
    /\ read' = read \cup {f}
    /\ todo' = todo \ {f}
    /\ loaded' = [loaded EXCEPT ![f] = IF Parses(f) THEN dir[f].ver ELSE None]
    /\ racy' = racy \ {f}
    /\ UNCHANGED <<dirVars, loaded_time, phase, lock, fails, settled>>

\* The iterator has been through the directory once; a second one is for the
\* other templates.
load_normal_templates ==
    /\ phase \in IncludePhases
    /\ todo = {}
    /\ todo' = {f \in Files \ Includes : Exists(f)}
    /\ phase' = IF phase = "includes" THEN "normals" ELSE "normals again"
    /\ UNCHANGED <<dirVars, loaded, loaded_time, lock, read, fails, settled, racy>>

\* Everything is loaded: the time is taken, and the lock and the iterator are gone.
Preloaded ==
    /\ phase \in NormalPhases
    /\ todo = {}
    /\ loaded_time' = clock
    /\ lock' = "free"
    /\ settled' = settled \cup {f \in Files : Flat(f) /\ loaded[f] = Wanted(f)}
    /\ phase' = "idle"
    /\ read' = {}
    /\ UNCHANGED <<dirVars, loaded, todo, fails, racy>>

\* The iterator throws: Preload returns false with what has been loaded so far.
\* ReloadIfFindUpdate then leaves the rest to ReloadIfFindNew.
Preload_fails ==
    /\ phase \in IncludePhases \cup NormalPhases
    /\ fails < MaxFails
    /\ fails' = fails + 1
    /\ lock' = "free"
    /\ phase' = IF phase \in {"includes", "normals"} THEN "check new" ELSE "idle"
    /\ settled' = {}
    /\ todo' = {}
    /\ read' = {}
    /\ UNCHANGED <<dirVars, loaded, loaded_time, racy>>

-------------------------------------------------------------------------------
(* Detecting *)

\* Mutant: files that do not exist any more are passed over.
Changed_ignores_removed(f) == dir[f].mtime > loaded_time

\* A loaded file has been removed, or written to later than the load.
Changed(f) == ~Exists(f) \/ dir[f].mtime > loaded_time

\* The idle timer calls CheckTemplatesUpdate, which calls ReloadIfFindUpdate.
\* Files are looked at one by one: an edit in the middle of that is for the next
\* time.
ReloadIfFindUpdate ==
    /\ phase = "idle"
    /\ phase' = IF \E f \in Files : loaded[f] # None /\ Changed(f) THEN "update" ELSE "check new"
    /\ UNCHANGED <<dirVars, loadVars, loaded_time, fails, settled, racy>>

\* A file that is not loaded, because it is new or because it did not parse.
ReloadIfFindNew ==
    /\ phase = "check new"
    /\ phase' = IF \E f \in Files : Exists(f) /\ loaded[f] = None THEN "append" ELSE "idle"
    /\ UNCHANGED <<dirVars, loadVars, loaded_time, fails, settled, racy>>

-------------------------------------------------------------------------------
(* The files *)

Edited(f) == /\ edits < MaxEdits
             /\ edits' = edits + 1
             /\ settled' = {g \in settled : f \notin {g} \cup dir[g].uses}

\* Someone writes f.  If f is loaded and this is before the end of the load, or
\* in the second in which it ended, the time of the file will not tell.
Write(f) ==
    /\ Edited(f)
    /\ \E text \in {"good", "bad"}, uses \in SUBSET Includes :
          dir' = [dir EXCEPT ![f] = [ver |-> edits + 1, mtime |-> clock, text |-> text, uses |-> uses]]
    /\ racy' = IF loaded[f] # None /\ (lock = "held" \/ clock <= loaded_time)
               THEN racy \cup {f}
               ELSE racy \ {f}
    /\ UNCHANGED <<clock, loadVars, loaded_time, phase, fails>>

\* Someone removes f: the iterator does not come to it any more, or finds that it
\* is no regular file.
Remove(f) ==
    /\ Exists(f)
    /\ Edited(f)
    /\ dir' = [dir EXCEPT ![f] = Absent]
    /\ todo' = todo \ {f}
    /\ racy' = racy \ {f}
    /\ UNCHANGED <<clock, loaded, lock, read, loaded_time, phase, fails>>

ClockTick == /\ clock < MaxTime
             /\ clock' = clock + 1
             /\ UNCHANGED <<dir, edits, loadVars, loaded_time, phase, fails, settled, racy>>

-------------------------------------------------------------------------------
detection == \/ Preload
             \/ \E f \in Files : try_load_template(f)
             \/ load_normal_templates
             \/ Preloaded
             \/ ReloadIfFindUpdate
             \/ ReloadIfFindNew

TemplatesNext == \/ detection
                 \/ Preload_fails
                 \/ \E f \in Files : Write(f) \/ Remove(f)
                 \/ ClockTick

TemplatesSpec == TemplatesInit /\ [][TemplatesNext]_templatesVars

\* The idle timer goes on calling the detection, and a load ends.
TemplatesFairSpec == TemplatesSpec /\ WF_templatesVars(detection)

-------------------------------------------------------------------------------
(* Properties *)

\* Types; and the lock is held exactly during a load.
TemplatesTypeOK == /\ clock \in 1..MaxTime
                   /\ dir \in [Files -> [ver : Nat, mtime : Nat, text : {"good", "bad"},
                                      uses : SUBSET Includes]]
                   /\ edits \in 0..MaxEdits
                   /\ loaded \in [Files -> Nat]
                   /\ loaded_time \in Nat
                   /\ phase \in {"setup", "idle", "update", "check new", "append"}
                                 \cup IncludePhases \cup NormalPhases
                   /\ lock = IF phase \in IncludePhases \cup NormalPhases THEN "held" ELSE "free"
                   /\ todo \subseteq Files
                   /\ read \subseteq Files
                   /\ fails \in 0..MaxFails
                   /\ settled \subseteq Files
                   /\ racy \subseteq Files

\* What a request handler gets, once it has the lock.
Get(f) == loaded[f]

\* A request never misses a template, nor gets an old one, that has been loaded
\* and has not been edited since, nor what it includes, however often the others
\* are edited and all of them are loaded again, until a load fails.
NoGap == lock = "free" => \A f \in settled : Get(f) = Wanted(f)

\* What is loaded is, in the end, what is in the files, except for edits that a
\* load has overtaken, for a _loaded_time that was never set, and for templates
\* that are included by an included one.
Fresh == <>[](\/ loaded_time > clock
              \/ \A f \in Files : Flat(f) /\ ({f} \cup dir[f].uses) \cap racy = {} =>
                    (phase = "idle" => loaded[f] = Wanted(f)))
================================================================================
