------------------------------ MODULE Stores_proofs ------------------------------
(***************************************************************************)
(* Theorems about Stores, for any threads, rules, settings and bounds.     *)
(*                                                                         *)
(* The rules.  Whoever is in a save holds the lock (Locked), so what it     *)
(* has serialised is still the list in memory when it writes (Current),    *)
(* and between two saves the file is what was reported, or a save has      *)
(* failed (AtRest).                                                        *)
(*                                                                         *)
(* The settings.  As long as no two edits have overlapped the copy an edit *)
(* has read is what is in use, but for the key it edits (Mine).            *)
(***************************************************************************)
EXTENDS Stores, SequenceTheorems, TLAPS

-----------------------------------------------------------------------------
(* Type correctness.                                                       *)

LEMMA TypeInit == Init => Types
<1> SUFFICES ASSUME Init PROVE Types
  OBVIOUS
<1>1. yaml \in Files
  BY NameAssumption DEF Init, Files, Lines
<1>2. live \in [Keys -> Values]
  BY <1>1, NameAssumption DEF Init, Loaded, Files, Lines
<1>3. edit \in [Threads -> [key : Keys, value : Values]]
  BY NameAssumption DEF Init
<1>4. /\ rules \in Seq(Rules) /\ disk \in Seq(Rules) /\ acked \in Seq(Rules)
      /\ text \in [Threads -> Seq(Rules)] /\ calls \in 0..MaxCalls
  BY BoundAssumption DEF Init
<1> QED
  BY <1>1, <1>2, <1>3, <1>4 DEF Init, Types

\* The new lists are lists of rules.
LEMMA ListType ==
    ASSUME rules \in Seq(Rules)
    PROVE  /\ \A r \in Rules : Append(rules, r) \in Seq(Rules)
           /\ \A i \in DOMAIN rules : Without(i) \in Seq(Rules)
           /\ \A i \in 1..(Len(rules) - 1) : Swapped(i) \in Seq(Rules)
<1>1. \A i \in DOMAIN rules : Without(i) \in Seq(Rules)
  <2> SUFFICES ASSUME NEW i \in DOMAIN rules PROVE Without(i) \in Seq(Rules)
    OBVIOUS
  <2>1. Len(rules) - 1 \in Nat
    OBVIOUS
  <2>2. \A j \in 1..(Len(rules) - 1) : Without(i)[j] \in Rules
    BY DEF Without
  <2> QED
    BY <2>1, <2>2, SeqDef DEF Without
<1>2. \A i \in 1..(Len(rules) - 1) : Swapped(i) \in Seq(Rules)
  BY DEF Swapped
<1> QED
  BY <1>1, <1>2

LEMMA ConfigType ==
    ASSUME Types
    PROVE  /\ Loaded \in [Keys -> Values]
           /\ \A t \in Threads : Edited(t) \in Files
           /\ [rest |-> FALSE, key |-> [k \in Keys |-> Absent]] \in Files
<1>1. Loaded \in [Keys -> Values]
  BY NameAssumption DEF Types, Loaded, Files, Lines
<1>2. \A t \in Threads : Edited(t) \in Files
  <2> SUFFICES ASSUME NEW t \in Threads PROVE Edited(t) \in Files
    OBVIOUS
  <2>1. copy[t] \in Files /\ edit[t].value \in Values
    BY DEF Types
  <2>2. [copy[t].key EXCEPT ![edit[t].key] = edit[t].value] \in Lines
    BY <2>1 DEF Files, Lines
  <2> QED
    BY <2>1, <2>2 DEF Edited, Files
<1> QED
  BY <1>1, <1>2 DEF Files, Lines

LEMMA TypeStep ==
    ASSUME Types, [Next]_vars
    PROVE  Types'
<1> USE DEF Goto, configVars, rulesVars
<1>1. ASSUME NEW t \in Threads, Ask(t) PROVE Types'
  <2>1. calls' \in 0..MaxCalls
    BY <1>1, BoundAssumption DEF Ask, Begin, Types
  <2> QED
    BY <1>1, <2>1 DEF Ask, Begin, Types
<1>2. ASSUME NEW t \in Threads, Set(t) PROVE Types'
  <2>1. calls' \in 0..MaxCalls
    BY <1>2, BoundAssumption DEF Set, Begin, Types
  <2>2. live' \in [Keys -> Values] /\ edit' \in [Threads -> [key : Keys, value : Values]]
    <3>1. PICK k \in Keys, v \in Values :
              /\ live' = [live EXCEPT ![k] = v]
              /\ edit' = [edit EXCEPT ![t] = [key |-> k, value |-> v]]
      BY <1>2 DEF Set
    <3> QED
      BY <3>1 DEF Types
  <2>3. mixed' \in BOOLEAN
    BY <1>2 DEF Set, Types
  <2> QED
    BY <1>2, <2>1, <2>2, <2>3 DEF Set, Begin, Types
<1>3. ASSUME NEW t \in Threads, Change(t) PROVE Types'
  <2>1. rules' \in Seq(Rules)
    <3>1. /\ rules \in Seq(Rules) /\ <<>> \in Seq(Rules)
          /\ \/ \E r \in Rules : rules' = Append(rules, r)
             \/ \E i \in DOMAIN rules : rules' = Without(i)
             \/ \E i \in 1..(Len(rules) - 1) : rules' = Swapped(i)
             \/ rules' = <<>>
      BY <1>3 DEF Change, Types
    <3>2. \A r \in Rules : Append(rules, r) \in Seq(Rules)
      BY <3>1, ListType
    <3>3. \A i \in DOMAIN rules : Without(i) \in Seq(Rules)
      BY <3>1, ListType
    <3>4. \A i \in 1..(Len(rules) - 1) : Swapped(i) \in Seq(Rules)
      BY <3>1, ListType
    <3> QED
      BY <3>1, <3>2, <3>3, <3>4
  <2> QED
    BY <1>3, <2>1 DEF Change, Holds, Types
<1>4. ASSUME NEW t \in Threads, NoChange(t) PROVE Types'
  BY <1>4 DEF NoChange, Types
<1>5. ASSUME NEW t \in Threads, Open(t) PROVE Types'
  BY <1>5 DEF Open, Types
<1>6. ASSUME NEW t \in Threads, Write(t) PROVE Types'
  BY <1>6 DEF Write, Types
<1>7. ASSUME NEW t \in Threads, SaveFails(t) PROVE Types'
  BY <1>7 DEF SaveFails, Freed, Types
<1>8. ASSUME NEW t \in Threads, Saved(t) PROVE Types'
  BY <1>8 DEF Saved, Types
<1>9. ASSUME NEW t \in Threads, Read(t) PROVE Types'
  <2>1. blurred' \in BOOLEAN
    BY <1>9 DEF Read, Types
  <2> QED
    BY <1>9, <2>1 DEF Read, ReadOf, Types
<1>10. ASSUME NEW t \in Threads, YamlOpen(t) PROVE Types'
  BY <1>10, ConfigType DEF YamlOpen, Types
<1>11. ASSUME NEW t \in Threads, YamlWrite(t) PROVE Types'
  BY <1>11, ConfigType DEF YamlWrite, Types
<1>12. ASSUME NEW t \in Threads, EditFails(t) PROVE Types'
  BY <1>12 DEF EditFails, Types
<1>13. CASE Crash
  <2>1. failed' \in BOOLEAN /\ dropped' \in BOOLEAN
    BY <1>13 DEF Crash, Types
  <2> QED
    BY <1>13, <2>1 DEF Crash, Types
<1>14. CASE Restart
  BY <1>14, ConfigType DEF Restart, Types
<1>15. CASE UNCHANGED vars
  BY <1>15 DEF vars, Types
<1> QED
  BY <1>1, <1>2, <1>3, <1>4, <1>5, <1>6, <1>7, <1>8, <1>9, <1>10, <1>11, <1>12, <1>13, <1>14, <1>15
  DEF Next, Step

-----------------------------------------------------------------------------
(* The rules.                                                              *)

\* A save is made under the lock, and nothing while the program is down.
Locked == \A t \in Threads : /\ Saving(t) => lock = t
                             /\ pc[t] # "idle" => up

\* What is being written is the list as it is.
Current == \A t \in Threads : /\ pc[t] = "write" => text[t] = rules /\ disk = <<>>
                              /\ pc[t] = "saved" => disk = rules

Filled == \E t \in Threads : pc[t] \in {"write", "saved"}

\* While the program runs and nobody has opened the file, it holds what was reported
\* saved, or a save has failed and left nothing.
AtRest ==
    (up /\ ~Filled) => disk = acked \/ (disk = <<>> /\ failed)

RulesInv == Types /\ Locked /\ Current /\ AtRest /\ Durable

LEMMA LockedStep ==
    ASSUME Types, Locked, [Next]_vars
    PROVE  Locked'
<1> USE DEF Goto, configVars, rulesVars, Locked, Saving
<1>1. ASSUME NEW t \in Threads, Change(t) PROVE Locked'
  <2>1. \A u \in Threads \ {t} : ~Saving(u)
    BY <1>1, NameAssumption DEF Change
  <2> QED
    BY <1>1, <2>1 DEF Change, Holds, Types
<1>2. ASSUME NEW t \in Threads, SaveFails(t) \/ Saved(t) PROVE Locked'
  <2>1. \A u \in Threads \ {t} : ~Saving(u)
    BY <1>2 DEF SaveFails, Saved
  <2> QED
    BY <1>2, <2>1 DEF SaveFails, Saved, Types
<1>3. ASSUME NEW t \in Threads,
             Ask(t) \/ Set(t) \/ NoChange(t) \/ Open(t) \/ Write(t) \/ Read(t) \/ YamlOpen(t)
             \/ YamlWrite(t) \/ EditFails(t)
      PROVE  Locked'
  BY <1>3 DEF Ask, Set, Begin, NoChange, Open, Write, Read, YamlOpen, YamlWrite, EditFails, Editing, Types
<1>4. CASE Crash
  BY <1>4 DEF Crash
<1>5. CASE Restart
  BY <1>5 DEF Restart
<1>6. CASE UNCHANGED vars
  BY <1>6 DEF vars
<1> QED
  BY <1>1, <1>2, <1>3, <1>4, <1>5, <1>6 DEF Next, Step

\* A step that touches neither the list, the file nor a save.
LEMMA RulesKept ==
    ASSUME Types, Current, AtRest, Durable,
           UNCHANGED <<up, rules, disk, acked, failed, text>>,
           \A t \in Threads : (Saving(t)' \/ Saving(t)) => pc'[t] = pc[t]
    PROVE  Current' /\ AtRest' /\ Durable'
<1>1. Current'
  BY DEF Current, Saving
<1>2. Filled => Filled'
  BY DEF Filled, Saving
<1>3. AtRest'
  BY <1>2 DEF AtRest
<1>4. Durable'
  BY DEF Durable, Saving
<1> QED
  BY <1>1, <1>3, <1>4

LEMMA RulesStep ==
    ASSUME RulesInv, [Next]_vars
    PROVE  Current' /\ AtRest' /\ Durable'
<1> USE DEF Goto, configVars, rulesVars
<1>t. Types /\ Locked /\ Current /\ AtRest /\ Durable
  BY DEF RulesInv
<1>1. ASSUME NEW t \in Threads, Change(t) PROVE Current' /\ AtRest' /\ Durable'
  <2>1. \A u \in Threads : ~Saving(u)
    BY <1>1, <1>t, NameAssumption DEF Change, Locked
  <2>2. pc' = [pc EXCEPT ![t] = "open"] /\ UNCHANGED <<up, text, disk, acked, failed>>
    BY <1>1 DEF Change
  <2>3. \A u \in Threads : pc'[u] # "write" /\ pc'[u] # "saved"
    BY <1>t, <2>1, <2>2 DEF Saving, Types
  <2>4. Current'
    BY <2>3 DEF Current
  <2>5. ~Filled /\ ~Filled'
    BY <2>1, <2>3 DEF Filled, Saving
  <2>6. AtRest'
    BY <1>t, <2>2, <2>5 DEF AtRest
  <2>7. Saving(t)'
    BY <1>t, <2>2 DEF Saving, Types
  <2>8. up => disk' = acked' \/ (disk' = <<>> /\ failed')
    BY <1>t, <2>2, <2>5 DEF AtRest
  <2>9. up
    BY <1>1, <1>t DEF Change, Locked
  <2> QED
    BY <2>2, <2>4, <2>6, <2>7, <2>8, <2>9 DEF Durable
<1>2. ASSUME NEW t \in Threads, Open(t) PROVE Current' /\ AtRest' /\ Durable'
  <2>1. \A u \in Threads \ {t} : ~Saving(u)
    BY <1>2, <1>t DEF Open, Locked, Saving
  <2>2. /\ pc' = [pc EXCEPT ![t] = "write"] /\ UNCHANGED <<up, rules, acked, failed>>
        /\ text' = [text EXCEPT ![t] = rules] /\ disk' = <<>>
    BY <1>2 DEF Open
  <2>3. pc'[t] = "write" /\ text'[t] = rules' /\ \A u \in Threads \ {t} : ~Saving(u)'
    BY <1>t, <2>1, <2>2 DEF Types, Saving
  <2>4. Current'
    BY <2>2, <2>3 DEF Current, Saving
  <2>5. Filled'
    BY <2>3 DEF Filled
  <2> QED
    BY <2>2, <2>3, <2>4, <2>5 DEF AtRest, Durable, Saving
<1>3. ASSUME NEW t \in Threads, Write(t) PROVE Current' /\ AtRest' /\ Durable'
  <2>1. \A u \in Threads \ {t} : ~Saving(u)
    BY <1>3, <1>t DEF Write, Locked, Saving
  <2>2. /\ pc' = [pc EXCEPT ![t] = "saved"] /\ UNCHANGED <<up, rules, acked, failed, text>>
        /\ disk' = rules
    BY <1>3, <1>t DEF Write, Current
  <2>3. pc'[t] = "saved" /\ \A u \in Threads \ {t} : ~Saving(u)'
    BY <1>t, <2>1, <2>2 DEF Types, Saving
  <2>4. Current'
    BY <2>2, <2>3 DEF Current, Saving
  <2>5. Filled'
    BY <2>3 DEF Filled
  <2> QED
    BY <2>2, <2>3, <2>4, <2>5 DEF AtRest, Durable, Saving
<1>4. ASSUME NEW t \in Threads, SaveFails(t) PROVE Current' /\ AtRest' /\ Durable'
  <2>1. \A u \in Threads \ {t} : ~Saving(u)
    BY <1>4, <1>t DEF SaveFails, Locked, Saving
  <2>2. /\ pc' = [pc EXCEPT ![t] = "idle"] /\ UNCHANGED <<up, rules, acked, disk, text>>
        /\ failed' /\ pc[t] \in {"open", "write"}
    BY <1>4 DEF SaveFails
  <2>3. \A u \in Threads : ~Saving(u)'
    BY <1>t, <2>1, <2>2 DEF Types, Saving
  <2>4. Current'
    BY <2>3 DEF Current, Saving
  <2>5. disk' = acked' \/ disk' = <<>>
    <3>1. CASE pc[t] = "open"
      <4>1. ~Filled
        BY <2>1, <3>1 DEF Filled, Saving
      <4>2. up
        BY <1>t, <3>1 DEF Locked
      <4> QED
        BY <1>t, <2>2, <4>1, <4>2 DEF AtRest
    <3>2. CASE pc[t] = "write"
      BY <1>t, <2>2, <3>2 DEF Current
    <3> QED
      BY <2>2, <3>1, <3>2
  <2> QED
    BY <2>2, <2>4, <2>5 DEF AtRest, Durable
<1>5. ASSUME NEW t \in Threads, Saved(t) PROVE Current' /\ AtRest' /\ Durable'
  <2>1. \A u \in Threads \ {t} : ~Saving(u)
    BY <1>5, <1>t DEF Saved, Locked, Saving
  <2>2. /\ pc' = [pc EXCEPT ![t] = "idle"] /\ UNCHANGED <<up, rules, disk, text>>
        /\ acked' = rules /\ disk = rules
    BY <1>5, <1>t DEF Saved, Current
  <2>3. \A u \in Threads : ~Saving(u)'
    BY <1>t, <2>1, <2>2 DEF Types, Saving
  <2>4. Current'
    BY <2>3 DEF Current, Saving
  <2> QED
    BY <2>2, <2>4 DEF AtRest, Durable
<1>6. ASSUME NEW t \in Threads,
             Ask(t) \/ Set(t) \/ NoChange(t) \/ Read(t) \/ YamlOpen(t)
             \/ YamlWrite(t) \/ EditFails(t)
      PROVE  Current' /\ AtRest' /\ Durable'
  <2>1. UNCHANGED <<up, rules, disk, acked, failed, text>>
    BY <1>6 DEF Ask, Set, NoChange, Read, YamlOpen, YamlWrite, EditFails
  <2>2. \A u \in Threads : (Saving(u)' \/ Saving(u)) => pc'[u] = pc[u]
    BY <1>6, <1>t DEF Ask, Set, Begin, NoChange, Read, YamlOpen, YamlWrite, EditFails, Editing, Saving, Types
  <2> QED
    BY <1>t, <2>1, <2>2, RulesKept
<1>7. CASE Crash
  <2>1. /\ ~up' /\ UNCHANGED <<rules, disk, acked>> /\ \A u \in Threads : pc'[u] = "idle"
        /\ failed' = (failed \/ \E u \in Threads : pc[u] = "write")
    BY <1>7 DEF Crash
  <2> QED
    BY <1>t, <2>1 DEF Current, AtRest, Durable
<1>8. CASE Restart
  <2>1. /\ rules' = disk /\ acked' = disk /\ disk' = disk /\ UNCHANGED <<pc, text>> /\ ~up
    BY <1>8 DEF Restart
  <2>2. Current'
    BY <1>t, <2>1 DEF Locked, Current
  <2> QED
    BY <2>1, <2>2 DEF AtRest, Durable
<1>9. CASE UNCHANGED vars
  <2>1. UNCHANGED <<up, rules, disk, acked, failed, text, pc>>
    BY <1>9 DEF vars
  <2> QED
    BY <1>t, <2>1, RulesKept
<1> QED
  BY <1>1, <1>2, <1>3, <1>4, <1>5, <1>6, <1>7, <1>8, <1>9 DEF Next, Step

LEMMA RulesInit == Init => RulesInv
<1> SUFFICES ASSUME Init PROVE RulesInv
  OBVIOUS
<1>1. Locked /\ Current /\ AtRest /\ Durable
  BY DEF Init, Locked, Current, AtRest, Durable, Saving
<1> QED
  BY <1>1, TypeInit DEF RulesInv

\* What was reported saved is on the disk, through failing and interrupted saves and
\* any number of threads, unless a later save emptied the file and did not finish.
THEOREM DurableHolds == Spec => []Durable
<1>1. RulesInv /\ [Next]_vars => RulesInv'
  BY TypeStep, LockedStep, RulesStep DEF RulesInv
<1>2. RulesInv => Durable
  BY DEF RulesInv
<1> QED
  BY <1>1, <1>2, RulesInit, PTL DEF Spec

\* The new lists have no rule twice if the old one has none.
LEMMA NoTwinsList ==
    ASSUME rules \in Seq(Rules), IsInjective(rules)
    PROVE  /\ \A r \in Rules : ~Known(r) => IsInjective(Append(rules, r))
           /\ \A i \in DOMAIN rules : IsInjective(Without(i))
           /\ \A i \in 1..(Len(rules) - 1) : IsInjective(Swapped(i))
<1>1. Len(rules) \in Nat /\ DOMAIN rules = 1..Len(rules)
  OBVIOUS
<1>2. ASSUME NEW r \in Rules, ~Known(r) PROVE IsInjective(Append(rules, r))
  <2>1. DOMAIN Append(rules, r) = 1..(Len(rules) + 1)
    OBVIOUS
  <2>2. \A j \in 1..(Len(rules) + 1) : Append(rules, r)[j] = IF j = Len(rules) + 1 THEN r ELSE rules[j]
    OBVIOUS
  <2>3. \A j \in 1..Len(rules) : rules[j] # r
    BY <1>1, <1>2 DEF Known
  <2> QED
    BY <1>1, <2>1, <2>2, <2>3 DEF IsInjective
<1>3. ASSUME NEW i \in DOMAIN rules PROVE IsInjective(Without(i))
  BY <1>1 DEF IsInjective, Without
<1>4. ASSUME NEW i \in 1..(Len(rules) - 1) PROVE IsInjective(Swapped(i))
  BY <1>1 DEF IsInjective, Swapped
<1> QED
  BY <1>2, <1>3, <1>4

TwinsInv == RulesInv /\ NoTwins

LEMMA TwinsStep ==
    ASSUME TwinsInv, [Next]_vars
    PROVE  NoTwins'
<1> USE DEF Goto, configVars, rulesVars
<1>0. IsInjective(<<>>)
  BY DEF IsInjective
<1>t. Types /\ Current /\ NoTwins
  BY DEF TwinsInv, RulesInv
<1>1. ASSUME NEW t \in Threads, Change(t) PROVE NoTwins'
  <2>1. /\ rules \in Seq(Rules) /\ IsInjective(rules) /\ disk' = disk
        /\ \/ \E r \in Rules : ~Known(r) /\ rules' = Append(rules, r)
           \/ \E i \in DOMAIN rules : rules' = Without(i)
           \/ \E i \in 1..(Len(rules) - 1) : rules' = Swapped(i)
           \/ rules' = <<>>
    BY <1>1, <1>t DEF Change, Types, NoTwins
  <2>2. \A r \in Rules : ~Known(r) => IsInjective(Append(rules, r))
    BY <2>1, NoTwinsList
  <2>3. \A i \in DOMAIN rules : IsInjective(Without(i))
    BY <2>1, NoTwinsList
  <2>4. \A i \in 1..(Len(rules) - 1) : IsInjective(Swapped(i))
    BY <2>1, NoTwinsList
  <2>5. IsInjective(rules')
    BY <1>0, <2>1, <2>2, <2>3, <2>4
  <2> QED
    BY <1>t, <2>1, <2>5 DEF NoTwins
<1>2. ASSUME NEW t \in Threads, Open(t) PROVE NoTwins'
  BY <1>0, <1>2, <1>t DEF Open, NoTwins
<1>3. ASSUME NEW t \in Threads, Write(t) PROVE NoTwins'
  BY <1>3, <1>t DEF Write, Current, NoTwins
<1>4. CASE Restart
  BY <1>4, <1>t DEF Restart, NoTwins
<1>5. ASSUME \/ \E t \in Threads : Ask(t) \/ Set(t) \/ NoChange(t) \/ SaveFails(t) \/ Saved(t)
                   \/ Read(t) \/ YamlOpen(t) \/ YamlWrite(t) \/ EditFails(t)
             \/ Crash \/ UNCHANGED vars
      PROVE  NoTwins'
  <2>1. rules' = rules /\ disk' = disk
    BY <1>5 DEF Ask, Set, NoChange, SaveFails, Saved, Read, YamlOpen, YamlWrite, EditFails, Crash, vars
  <2> QED
    BY <1>t, <2>1 DEF NoTwins
<1> QED
  BY <1>1, <1>2, <1>3, <1>4, <1>5 DEF Next, Step

\* Whatever is changed, cut off and loaded again, the state is well-typed (a start never
\* takes a line that is not there for a value), and no rule is there twice, in memory or
\* in what a restart would load.
THEOREM TypeCorrect == Spec => []TypeOK
<1>1. Init => TwinsInv
  <2>1. Init => NoTwins
    BY DEF Init, NoTwins, IsInjective
  <2> QED
    BY <2>1, RulesInit DEF TwinsInv
<1>2. TwinsInv /\ [Next]_vars => TwinsInv'
  BY TypeStep, LockedStep, RulesStep, TwinsStep DEF TwinsInv, RulesInv
<1>3. TwinsInv => TypeOK
  BY DEF TwinsInv, RulesInv, TypeOK
<1> QED
  BY <1>1, <1>2, <1>3, PTL DEF Spec

-----------------------------------------------------------------------------
(* The settings.                                                           *)

\* An edit has a whole file in hand, or one has read an emptied one.
CopyWhole ==
    \A t \in Threads : pc[t] \in {"yopen", "ywrite"} => copy[t].rest \/ blurred \/ dropped

RestInv == Types /\ Locked /\ CopyWhole /\ RestSurvives

LEMMA RestStep ==
    ASSUME RestInv, [Next]_vars
    PROVE  CopyWhole' /\ RestSurvives'
<1> USE DEF Goto, configVars, rulesVars
<1>t. Types /\ Locked /\ CopyWhole /\ RestSurvives
  BY DEF RestInv
<1>1. ASSUME NEW t \in Threads, Read(t) PROVE CopyWhole' /\ RestSurvives'
  <2>1. /\ pc' = [pc EXCEPT ![t] = "yopen"] /\ copy' = [copy EXCEPT ![t] = yaml]
        /\ UNCHANGED <<yaml, dropped>> /\ pc[t] = "read"
        /\ blurred' = (blurred \/ \E u \in Threads : pc[u] = "ywrite")
    BY <1>1 DEF Read, ReadOf
  <2>2. yaml.rest \/ blurred' \/ dropped'
    BY <1>t, <2>1 DEF RestSurvives
  <2>3. \A u \in Threads \ {t} : pc'[u] = pc[u] /\ copy'[u] = copy[u]
    BY <1>t, <2>1 DEF Types
  <2>4. copy'[t] = yaml /\ pc'[t] = "yopen"
    BY <1>t, <2>1 DEF Types
  <2>5. CopyWhole'
    BY <1>t, <2>1, <2>2, <2>3, <2>4 DEF CopyWhole
  <2>6. RestSurvives'
    BY <1>t, <2>1 DEF RestSurvives
  <2> QED
    BY <2>5, <2>6
<1>2. ASSUME NEW t \in Threads, YamlOpen(t) PROVE CopyWhole' /\ RestSurvives'
  <2>1. /\ pc' = [pc EXCEPT ![t] = "ywrite"] /\ UNCHANGED <<copy, blurred, dropped>> /\ pc[t] = "yopen"
    BY <1>2 DEF YamlOpen
  <2>2. pc'[t] = "ywrite" /\ \A u \in Threads \ {t} : pc'[u] = pc[u]
    BY <1>t, <2>1 DEF Types
  <2> QED
    BY <1>t, <2>1, <2>2 DEF CopyWhole, RestSurvives
<1>3. ASSUME NEW t \in Threads, YamlWrite(t) PROVE CopyWhole' /\ RestSurvives'
  <2>1. /\ pc' = [pc EXCEPT ![t] = "idle"] /\ UNCHANGED <<copy, blurred, dropped>>
        /\ yaml' = Edited(t) /\ pc[t] = "ywrite"
    BY <1>3 DEF YamlWrite
  <2>2. yaml'.rest = copy[t].rest
    <3>1. copy[t] \in Files
      BY <1>t DEF Types
    <3> QED
      BY <2>1, <3>1 DEF Edited, Files
  <2>3. pc'[t] = "idle" /\ \A u \in Threads \ {t} : pc'[u] = pc[u]
    BY <1>t, <2>1 DEF Types
  <2> QED
    BY <1>t, <2>1, <2>2, <2>3 DEF CopyWhole, RestSurvives
<1>4. ASSUME NEW t \in Threads, EditFails(t) PROVE CopyWhole' /\ RestSurvives'
  BY <1>4 DEF EditFails, CopyWhole, RestSurvives
<1>5. CASE Crash
  BY <1>5, <1>t DEF Crash, CopyWhole, RestSurvives
<1>6. CASE Restart
  <2>1. UNCHANGED <<pc, yaml>> /\ yaml.rest /\ ~up
    BY <1>6 DEF Restart
  <2> QED
    BY <1>t, <2>1 DEF Locked, CopyWhole, RestSurvives
<1>7. ASSUME NEW t \in Threads, Ask(t) \/ Set(t) \/ Change(t) \/ NoChange(t) \/ Open(t) \/ Write(t)
                               \/ SaveFails(t) \/ Saved(t)
      PROVE  CopyWhole' /\ RestSurvives'
  <2>1. UNCHANGED <<yaml, copy, blurred, dropped>>
    BY <1>7 DEF Ask, Set, Change, NoChange, Open, Write, SaveFails, Saved
  <2>3. /\ pc[t] \in {"idle", "wait", "open", "write", "saved"}
        /\ \E a \in {"idle", "wait", "open", "write", "saved", "read"} : pc' = [pc EXCEPT ![t] = a]
    BY <1>7 DEF Ask, Set, Begin, Change, NoChange, Open, Write, SaveFails, Saved
  <2>2. \A u \in Threads : pc'[u] = pc[u] \/ (pc[u] \notin {"yopen", "ywrite"} /\ pc'[u] \notin {"yopen", "ywrite"})
    BY <1>t, <2>3 DEF Types
  <2> QED
    BY <1>t, <2>1, <2>2 DEF CopyWhole, RestSurvives
<1>8. CASE UNCHANGED vars
  BY <1>8, <1>t DEF vars, CopyWhole, RestSurvives
<1> QED
  BY <1>1, <1>2, <1>3, <1>4, <1>5, <1>6, <1>7, <1>8 DEF Next, Step

\* The sections of config.yaml that no edit touches are lost only by an edit that read
\* the file while another was writing it, a write that failed, or a crash in a write.
THEOREM RestSurvivesHolds == Spec => []RestSurvives
<1>1. Init => RestInv
  <2>1. Init => Locked /\ CopyWhole /\ RestSurvives
    BY DEF Init, Locked, CopyWhole, RestSurvives, Saving
  <2> QED
    BY <2>1, TypeInit DEF RestInv
<1>2. RestInv /\ [Next]_vars => RestInv'
  BY TypeStep, LockedStep, RestStep DEF RestInv
<1>3. RestInv => RestSurvives
  BY DEF RestInv
<1> QED
  BY <1>1, <1>2, <1>3, PTL DEF Spec

ValueIn(f, k) == IF f.key[k] = Absent THEN Default ELSE f.key[k]

\* What is in use is what the file f says, but for the setting that t edits.
InUse(f, t) ==
    /\ live[edit[t].key] = edit[t].value
    /\ \A k \in Keys \ {edit[t].key} : live[k] = ValueIn(f, k)

Alone == ~mixed => \A t, u \in Threads : Editing(t) /\ Editing(u) => t = u

Mine ==
    (~mixed /\ ~dropped) => \A t \in Threads :
        /\ pc[t] = "read" => InUse(yaml, t)
        /\ pc[t] \in {"yopen", "ywrite"} => InUse(copy[t], t)

SettingsInv == Types /\ Locked /\ Alone /\ Mine /\ SettingsPersist

LEMMA SettingsStep ==
    ASSUME SettingsInv, [Next]_vars
    PROVE  Alone' /\ Mine' /\ SettingsPersist'
<1> USE DEF Goto, configVars, rulesVars
<1>t. Types /\ Locked /\ Alone /\ Mine /\ SettingsPersist
  BY DEF SettingsInv
<1>1. ASSUME NEW t \in Threads, Set(t) PROVE Alone' /\ Mine' /\ SettingsPersist'
  <2>1. PICK k \in Keys, v \in Values :
            /\ live' = [live EXCEPT ![k] = v]
            /\ edit' = [edit EXCEPT ![t] = [key |-> k, value |-> v]]
    BY <1>1 DEF Set
  <2>2. /\ pc' = [pc EXCEPT ![t] = "read"] /\ UNCHANGED <<yaml, dropped, up>> /\ pc[t] = "idle" /\ up
        /\ mixed' = (mixed \/ \E u \in Threads \ {t} : Editing(u))
    BY <1>1 DEF Set, Begin
  <2>3. pc'[t] = "read" /\ \A u \in Threads \ {t} : pc'[u] = pc[u]
    BY <1>t, <2>2 DEF Types
  <2>4. ~mixed' => ~mixed /\ \A u \in Threads : ~Editing(u)
    BY <2>2 DEF Editing
  <2>5. ~mixed' => \A u \in Threads \ {t} : ~Editing(u)'
    BY <2>3, <2>4 DEF Editing
  <2>6. Alone'
    BY <2>5 DEF Alone
  <2>7. SettingsPersist'
    BY <2>3 DEF SettingsPersist, Editing
  <2>8. ~mixed' /\ ~dropped' => InUse(yaml, t)'
    <3>1. edit'[t] = [key |-> k, value |-> v]
      BY <1>t, <2>1 DEF Types
    <3>2. live'[k] = v /\ \A l \in Keys \ {k} : live'[l] = live[l]
      BY <1>t, <2>1 DEF Types
    <3>3. ~mixed' /\ ~dropped' => live = Loaded
      BY <1>t, <2>2, <2>4 DEF SettingsPersist
    <3> QED
      BY <2>2, <3>1, <3>2, <3>3 DEF InUse, Loaded, ValueIn
  <2>9. Mine'
    BY <2>3, <2>5, <2>8 DEF Mine, Editing
  <2> QED
    BY <2>6, <2>7, <2>9
<1>2. ASSUME NEW t \in Threads, Read(t) PROVE Alone' /\ Mine' /\ SettingsPersist'
  <2>1. /\ pc' = [pc EXCEPT ![t] = "yopen"] /\ copy' = [copy EXCEPT ![t] = yaml]
        /\ UNCHANGED <<yaml, dropped, mixed, live, edit>> /\ pc[t] = "read"
    BY <1>2 DEF Read, ReadOf
  <2>2. /\ pc'[t] = "yopen" /\ copy'[t] = yaml
        /\ \A u \in Threads \ {t} : pc'[u] = pc[u] /\ copy'[u] = copy[u]
    BY <1>t, <2>1 DEF Types
  <2>3. Alone'
    BY <1>t, <2>1, <2>2 DEF Alone, Editing
  <2>4. Mine'
    BY <1>t, <2>1, <2>2 DEF Mine, InUse, ValueIn
  <2>5. SettingsPersist'
    BY <2>2 DEF SettingsPersist, Editing
  <2> QED
    BY <2>3, <2>4, <2>5
<1>3. ASSUME NEW t \in Threads, YamlOpen(t) PROVE Alone' /\ Mine' /\ SettingsPersist'
  <2>1. /\ pc' = [pc EXCEPT ![t] = "ywrite"]
        /\ UNCHANGED <<copy, dropped, mixed, live, edit>> /\ pc[t] = "yopen"
    BY <1>3 DEF YamlOpen
  <2>2. pc'[t] = "ywrite" /\ \A u \in Threads \ {t} : pc'[u] = pc[u]
    BY <1>t, <2>1 DEF Types
  <2>3. Alone'
    BY <1>t, <2>1, <2>2 DEF Alone, Editing
  <2>4. ~mixed => \A u \in Threads \ {t} : pc[u] # "read"
    BY <1>t, <2>1 DEF Alone, Editing
  <2>5. Mine'
    BY <1>t, <2>1, <2>2, <2>4 DEF Mine, InUse, ValueIn
  <2>6. SettingsPersist'
    BY <2>2 DEF SettingsPersist, Editing
  <2> QED
    BY <2>3, <2>5, <2>6
<1>4. ASSUME NEW t \in Threads, YamlWrite(t) PROVE Alone' /\ Mine' /\ SettingsPersist'
  <2>1. /\ pc' = [pc EXCEPT ![t] = "idle"] /\ yaml' = Edited(t)
        /\ UNCHANGED <<copy, dropped, mixed, live, edit>> /\ pc[t] = "ywrite"
    BY <1>4 DEF YamlWrite
  <2>2. pc'[t] = "idle" /\ \A u \in Threads \ {t} : pc'[u] = pc[u]
    BY <1>t, <2>1 DEF Types
  <2>3. Alone'
    BY <1>t, <2>1, <2>2 DEF Alone, Editing
  <2>4. ~mixed => \A u \in Threads \ {t} : ~Editing(u)
    BY <1>t, <2>1 DEF Alone, Editing
  <2>5. Mine'
    BY <1>t, <2>1, <2>2, <2>4 DEF Mine, Editing
  <2>6. /\ edit[t].key \in Keys /\ edit[t].value \in Values
        /\ copy[t] \in Files /\ copy[t].key \in Lines /\ live \in [Keys -> Values]
    BY <1>t DEF Types, Files
  <2>7. yaml'.key = [copy[t].key EXCEPT ![edit[t].key] = edit[t].value]
    BY <2>1, <2>6 DEF Edited, Files
  <2>8. ~mixed /\ ~dropped => \A k \in Keys : live[k] = ValueIn(yaml', k)
    BY <1>t, <2>1, <2>6, <2>7, NameAssumption DEF Mine, InUse, ValueIn, Lines
  <2>9. SettingsPersist'
    BY <2>1, <2>6, <2>8 DEF SettingsPersist, Loaded, ValueIn
  <2> QED
    BY <2>3, <2>5, <2>9
<1>5. ASSUME NEW t \in Threads, EditFails(t) PROVE Alone' /\ Mine' /\ SettingsPersist'
  <2>1. pc' = [pc EXCEPT ![t] = "idle"] /\ dropped' /\ mixed' = mixed
    BY <1>5 DEF EditFails
  <2>2. Alone'
    BY <1>t, <2>1 DEF Alone, Editing, Types
  <2> QED
    BY <2>1, <2>2 DEF Mine, SettingsPersist
<1>6. CASE Crash
  <2>1. ~up' /\ \A u \in Threads : pc'[u] = "idle"
    BY <1>6 DEF Crash
  <2> QED
    BY <2>1 DEF Alone, Mine, SettingsPersist, Editing
<1>7. CASE Restart
  <2>1. UNCHANGED <<pc, yaml>> /\ live' = Loaded /\ ~up
    BY <1>7 DEF Restart
  <2>2. \A u \in Threads : pc'[u] = "idle"
    BY <1>t, <2>1 DEF Locked
  <2>3. live' = Loaded'
    BY <2>1 DEF Loaded
  <2> QED
    BY <2>2, <2>3 DEF Alone, Mine, SettingsPersist, Editing
<1>8. ASSUME NEW t \in Threads, Ask(t) \/ Change(t) \/ NoChange(t) \/ Open(t) \/ Write(t)
                               \/ SaveFails(t) \/ Saved(t)
      PROVE  Alone' /\ Mine' /\ SettingsPersist'
  <2>1. UNCHANGED <<yaml, copy, mixed, dropped, live, edit, up>>
    BY <1>8 DEF Ask, Change, NoChange, Open, Write, SaveFails, Saved
  <2>7. /\ pc[t] \in {"idle", "wait", "open", "write", "saved"}
        /\ \E a \in {"idle", "wait", "open", "write", "saved"} : pc' = [pc EXCEPT ![t] = a]
    BY <1>8 DEF Ask, Begin, Change, NoChange, Open, Write, SaveFails, Saved
  <2>2. \A u \in Threads : pc'[u] = pc[u] \/ (~Editing(u) /\ ~Editing(u)')
    BY <1>t, <2>7 DEF Editing, Types
  <2>3. \A u \in Threads : Editing(u)' = Editing(u)
    BY <2>2 DEF Editing
  <2>4. Alone'
    BY <1>t, <2>1, <2>3 DEF Alone
  <2>5. Mine'
    BY <1>t, <2>1, <2>2 DEF Mine, InUse, ValueIn, Editing
  <2>6. SettingsPersist'
    BY <1>t, <2>1, <2>3 DEF SettingsPersist, Loaded
  <2> QED
    BY <2>4, <2>5, <2>6
<1>9. CASE UNCHANGED vars
  BY <1>9, <1>t DEF vars, Alone, Mine, SettingsPersist, Editing, InUse, ValueIn, Loaded
<1> QED
  BY <1>1, <1>2, <1>3, <1>4, <1>5, <1>6, <1>7, <1>8, <1>9 DEF Next, Step

\* As long as edits do not overlap and none fails, what the HUD set is what the next
\* start loads, through any restarts.
THEOREM SettingsPersistHolds == Spec => []SettingsPersist
<1>1. Init => SettingsInv
  <2>1. Init => Locked /\ Alone /\ Mine /\ SettingsPersist
    BY DEF Init, Locked, Alone, Mine, SettingsPersist, Saving, Editing
  <2> QED
    BY <2>1, TypeInit DEF SettingsInv
<1>2. SettingsInv /\ [Next]_vars => SettingsInv'
  BY TypeStep, LockedStep, SettingsStep DEF SettingsInv
<1>3. SettingsInv => SettingsPersist
  BY DEF SettingsInv
<1> QED
  BY <1>1, <1>2, <1>3, PTL DEF Spec

\* What the HUD set is what a restart loads, and what nobody sets survives, as long as
\* no two edits overlap and none is cut off or fails.
THEOREM ConfigKeptHolds == Spec => []ConfigKept
<1>1. SettingsPersist /\ RestSurvives => ConfigKept
  BY DEF ConfigKept
<1> QED
  BY <1>1, SettingsPersistHolds, RestSurvivesHolds, PTL

=============================================================================
