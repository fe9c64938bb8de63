--------------------------------- MODULE Stores ---------------------------------
(***************************************************************************)
(* What survives a restart: the rules (RulesStore, rules.json) and the     *)
(* settings of the HUD (set_model and set_z_trim, config.yaml).            *)
(*                                                                         *)
(* Both files are written in place: opening empties the file, a second     *)
(* step fills it, and either may fail, or the program may be killed        *)
(* between the two.  A change of the rules holds the store's lock from its *)
(* test to the end of its save.  A change of a setting holds no lock: it   *)
(* changes the live value, reads the file, edits the text and writes it.   *)
(***************************************************************************)
EXTENDS Naturals, Sequences, Functions

CONSTANTS
    Threads,    \* HUD requests and the Loop
    NoThread,   \* the lock is free
    Rules,      \* the rules that may be told
    Keys,       \* settings the HUD can change: vlm.model, workspace.z_trim_mm ...
    Values,     \* their values
    Default,    \* the value of a key that the file does not have
    Absent,     \* its line is not there
    MaxCalls,   \* bound on changes
    MaxRules    \* bound on the list

ASSUME BoundAssumption == MaxCalls \in Nat /\ MaxRules \in Nat
ASSUME NameAssumption ==
    NoThread \notin Threads /\ Default \in Values /\ Absent \notin Values

VARIABLES
    up,         \* the program runs
    calls,      \* the changes so far
    pc,         \* where each thread is in its change
    rules,      \* _rules
    lock,       \* _lock: its owner
    text,       \* the list each thread has serialised
    disk,       \* rules.json: the list a start would read, empty if the file is torn
    acked,      \* history: the rules after the last change that was reported saved
    failed,     \* history: a save has failed or was cut off, and none has succeeded since
    live,       \* the settings in use
    edit,       \* the setting each thread changes
    copy,       \* what each thread has read of config.yaml
    yaml,       \* config.yaml: the lines of Keys, and whether the rest is there
    mixed,      \* history: two edits have overlapped
    blurred,    \* history: an edit has read the file while another was writing it
    dropped     \* history: an edit has not reached the file

rulesVars  == <<rules, lock, text, disk, acked, failed>>
configVars == <<live, edit, copy, yaml, mixed, blurred, dropped>>
vars == <<up, calls, pc, rules, lock, text, disk, acked, failed,
          live, edit, copy, yaml, mixed, blurred, dropped>>

Lines == [Keys -> Values \cup {Absent}]
Files == [rest : BOOLEAN, key : Lines]

Goto(t, p) == pc' = [pc EXCEPT ![t] = p]
Begin(t, p) == up /\ pc[t] = "idle" /\ calls < MaxCalls /\ calls' = calls + 1 /\ Goto(t, p)

\* config.load: a key that the file lacks has a default.
Loaded == [k \in Keys |-> IF yaml.key[k] = Absent THEN Default ELSE yaml.key[k]]

Init ==
    /\ up = TRUE /\ calls = 0 /\ pc = [t \in Threads |-> "idle"]
    /\ rules = <<>> /\ lock = NoThread /\ text = [t \in Threads |-> <<>>]
    /\ disk = <<>> /\ acked = <<>> /\ failed = FALSE
    /\ yaml \in [rest : {TRUE}, key : [Keys -> {Absent, Default}]]
    /\ live = Loaded
    /\ \E k \in Keys : edit = [t \in Threads |-> [key |-> k, value |-> Default]]
    /\ copy = [t \in Threads |-> yaml]
    /\ mixed = FALSE /\ blurred = FALSE /\ dropped = FALSE

-----------------------------------------------------------------------------
(* RulesStore.                                                             *)

Ask(t) ==
    /\ Begin(t, "wait")
    /\ UNCHANGED <<up, rulesVars, configVars>>

Saving(t) == pc[t] \in {"open", "write", "saved"}

\* mutant of Known: only the last rule is compared
KnownLast(r) == rules # <<>> /\ rules[Len(rules)] = r
Known(r)     == \E i \in DOMAIN rules : rules[i] = r

\* pop(i)
Without(i) == [j \in 1..(Len(rules) - 1) |-> IF j < i THEN rules[j] ELSE rules[j + 1]]

\* pop(i) and insert next to it: the two change places.
Swapped(i) == [rules EXCEPT ![i] = rules[i + 1], ![i + 1] = rules[i]]

\* mutant of Holds: the lock is held for the change of the list only
HoldsNot(t) == lock' = lock
Holds(t)    == lock' = t

\* The list is changed in memory, and the lock is kept for the save.
Change(t) ==
    /\ pc[t] = "wait" /\ lock = NoThread
    /\ \/ \E r \in Rules : ~Known(r) /\ Len(rules) < MaxRules /\ rules' = Append(rules, r)
       \/ \E i \in DOMAIN rules : rules' = Without(i)
       \/ \E i \in 1..(Len(rules) - 1) : rules' = Swapped(i)
       \/ rules' = <<>>
    /\ Holds(t) /\ Goto(t, "open")
    /\ UNCHANGED <<up, calls, text, disk, acked, failed, configVars>>

\* The rule is there already, or there is no rule at that index: nothing is saved.
NoChange(t) ==
    /\ pc[t] = "wait" /\ lock = NoThread
    /\ Goto(t, "idle")
    /\ UNCHANGED <<up, calls, rulesVars, configVars>>

Open(t) ==
    /\ pc[t] = "open" /\ Goto(t, "write")
    /\ text' = [text EXCEPT ![t] = rules]
    /\ disk' = <<>>
    /\ UNCHANGED <<up, calls, rules, lock, acked, failed, configVars>>

Write(t) ==
    /\ pc[t] = "write" /\ Goto(t, "saved")
    /\ disk' = text[t]
    /\ UNCHANGED <<up, calls, rules, lock, text, acked, failed, configVars>>

Freed(t) == lock' = NoThread

\* Opening or writing raises, past the lock's block, to the caller.
SaveFails(t) ==
    /\ pc[t] \in {"open", "write"} /\ Goto(t, "idle")
    /\ Freed(t) /\ failed' = TRUE
    /\ UNCHANGED <<up, calls, rules, text, disk, acked, configVars>>

Saved(t) ==
    /\ pc[t] = "saved" /\ Goto(t, "idle")
    /\ lock' = NoThread
    /\ acked' = rules /\ failed' = FALSE
    /\ UNCHANGED <<up, calls, rules, text, disk, configVars>>

-----------------------------------------------------------------------------
(* set_model, set_z_trim and yaml_set.                                     *)

Editing(t) == pc[t] \in {"read", "yopen", "ywrite"}

Set(t) ==
    /\ Begin(t, "read")
    /\ \E k \in Keys, v \in Values :
         /\ live' = [live EXCEPT ![k] = v]
         /\ edit' = [edit EXCEPT ![t] = [key |-> k, value |-> v]]
    /\ mixed' = (mixed \/ \E u \in Threads \ {t} : Editing(u))
    /\ UNCHANGED <<up, rulesVars, copy, yaml, blurred, dropped>>

\* mutant of ReadOf: what was read once is kept
ReadOfOnce(t) == copy[t]
ReadOf(t)     == yaml

Read(t) ==
    /\ pc[t] = "read" /\ Goto(t, "yopen")
    /\ copy' = [copy EXCEPT ![t] = ReadOf(t)]
    /\ blurred' = (blurred \/ \E u \in Threads : pc[u] = "ywrite")
    /\ UNCHANGED <<up, calls, rulesVars, live, edit, yaml, mixed, dropped>>

YamlOpen(t) ==
    /\ pc[t] = "yopen" /\ Goto(t, "ywrite")
    /\ yaml' = [rest |-> FALSE, key |-> [k \in Keys |-> Absent]]
    /\ UNCHANGED <<up, calls, rulesVars, live, edit, copy, mixed, blurred, dropped>>

\* The line of the key is replaced or inserted, the others stay.
Edited(t) == [copy[t] EXCEPT !.key[edit[t].key] = edit[t].value]

YamlWrite(t) ==
    /\ pc[t] = "ywrite" /\ Goto(t, "idle")
    /\ yaml' = Edited(t)
    /\ UNCHANGED <<up, calls, rulesVars, live, edit, copy, mixed, blurred, dropped>>

\* Reading, opening or writing raises: "NOT persisted".
EditFails(t) ==
    /\ Editing(t) /\ Goto(t, "idle")
    /\ dropped' = TRUE
    /\ UNCHANGED <<up, calls, rulesVars, live, edit, copy, yaml, mixed, blurred>>

-----------------------------------------------------------------------------
(* The program is killed, and started again.                               *)

Crash ==
    /\ up /\ up' = FALSE
    /\ pc' = [t \in Threads |-> "idle"] /\ lock' = NoThread
    /\ failed' = (failed \/ \E t \in Threads : pc[t] = "write")
    /\ dropped' = (dropped \/ \E t \in Threads : pc[t] = "ywrite")
    /\ UNCHANGED <<calls, rules, text, disk, acked, live, edit, copy, yaml, mixed, blurred>>

\* A torn rules.json is read as no rules.  A config.yaml without its sections is an
\* error, and the program does not start.
Restart ==
    /\ ~up /\ yaml.rest /\ up' = TRUE
    /\ rules' = disk /\ acked' = disk /\ failed' = FALSE
    /\ live' = Loaded
    /\ mixed' = FALSE /\ blurred' = FALSE /\ dropped' = FALSE
    /\ UNCHANGED <<calls, pc, lock, text, disk, edit, copy, yaml>>

Step(t) ==
    \/ Change(t) \/ NoChange(t) \/ Open(t) \/ Write(t) \/ SaveFails(t) \/ Saved(t)
    \/ Read(t) \/ YamlOpen(t) \/ YamlWrite(t) \/ EditFails(t)

Next ==
    \/ \E t \in Threads : Ask(t) \/ Set(t) \/ Step(t)
    \/ Crash \/ Restart

Spec == Init /\ [][Next]_vars

-----------------------------------------------------------------------------
(* Properties.                                                             *)

Types ==
    /\ up \in BOOLEAN /\ calls \in 0..MaxCalls
    /\ pc \in [Threads -> {"idle", "wait", "open", "write", "saved", "read", "yopen", "ywrite"}]
    /\ rules \in Seq(Rules) /\ lock \in Threads \cup {NoThread}
    /\ text \in [Threads -> Seq(Rules)]
    /\ disk \in Seq(Rules) /\ acked \in Seq(Rules) /\ failed \in BOOLEAN
    /\ live \in [Keys -> Values]
    /\ edit \in [Threads -> [key : Keys, value : Values]]
    /\ copy \in [Threads -> Files] /\ yaml \in Files
    /\ mixed \in BOOLEAN /\ blurred \in BOOLEAN /\ dropped \in BOOLEAN

\* No rule is there twice, in the list and in the file, past moves, failed saves and
\* restarts (append tests and changes under one lock).
NoTwins == IsInjective(rules) /\ IsInjective(disk)

TypeOK == Types /\ NoTwins

\* A rule change that was reported saved is what a restart finds, unless a later one
\* was in its save: the file holds the one or the other, whoever else is saving, and
\* nothing only inside a write or after one that failed or was cut off.  The next save
\* that succeeds brings memory, file and report together again.
Durable ==
    /\ \/ disk = acked \/ disk = rules
       \/ disk = <<>> /\ (failed \/ \E t \in Threads : pc[t] = "write")
    /\ (up /\ ~failed /\ \A t \in Threads : ~Saving(t)) => (disk = acked /\ disk = rules)

\* What the HUD set is what a restart will load, as long as no two edits overlapped
\* and none failed: each edit keeps the lines of the others.
SettingsPersist ==
    (up /\ ~mixed /\ ~dropped /\ \A t \in Threads : ~Editing(t)) => live = Loaded

\* Overlapping edits may lose each other's lines, but the rest of config.yaml is
\* lost only by one that reads the file while another writes it, by a write that
\* fails, or by a crash in a write.
RestSurvives ==
    ~yaml.rest => blurred \/ dropped \/ \E t \in Threads : pc[t] = "ywrite"

ConfigKept == SettingsPersist /\ RestSurvives

=============================================================================
