----------------------- MODULE ProcessSupervisionProofs -----------------------
(***************************************************************************)
(* What holds of the supervisors for any number of them, of processes,      *)
(* faults, failures and stand-downs:                                        *)
(*  - at most one of them is between claiming the spawn lock and giving it  *)
(*    up, as long as no lock was taken for abandoned (LockInv);             *)
(*  - a scheduled restart is paid for by a failure (ChargeInv);             *)
(*  - a launch under a stand-down is looked after (StandInv);               *)
(*  - and, from the first of these, a second instance is alive only where   *)
(*    the code allows one to be overlooked (SoleInv).                       *)
(***************************************************************************)
EXTENDS ProcessSupervision, FiniteSetTheorems, TLAPS

(* Who claims the lock: a spawn under way, or its release thread.           *)
Holds(s) == Inside(s) \/ releasing[s]

Exclusive ==
    /\ \A s \in Sups : Holds(s) => lock # "none"
    /\ \A s, t \in Sups : Holds(s) /\ Holds(t) => s = t
    /\ \A s \in Sups : ~(Inside(s) /\ releasing[s])

LockInv ==
    /\ pc \in [Sups -> {"down", "idle", "assess", "kill", "spawn", "claim", "steal",
                        "check", "launch", "arm"}]
    /\ releasing \in [Sups -> BOOLEAN]
    /\ excuse \in {"none", "unseen", "stolen"}
    /\ \A s \in Sups : pc[s] = "steal" => excuse = "stolen"
    /\ excuse = "stolen" \/ Exclusive

(* A supervisor that moves outside the lock, or leaves it to nobody, does   *)
(* not disturb the others.                                                  *)
Outside == {"down", "idle", "assess", "kill", "spawn", "claim"}

LEMMA StepOutside ==
  ASSUME LockInv, NEW s \in Sups, NEW l \in Outside,
         pc' = [pc EXCEPT ![s] = l],
         releasing' = releasing \/ releasing' = [releasing EXCEPT ![s] = FALSE],
         lock' = lock, excuse' = excuse
  PROVE  LockInv'
<1>1. pc' \in [Sups -> {"down", "idle", "assess", "kill", "spawn", "claim", "steal",
                        "check", "launch", "arm"}]
  BY DEF LockInv, Outside
<1>2. releasing' \in [Sups -> BOOLEAN] /\ \A t \in Sups : releasing'[t] => releasing[t]
  BY DEF LockInv
<1>3. \A t \in Sups : /\ Inside(t)' => Inside(t)
                      /\ pc'[t] = "steal" => pc[t] = "steal"
  BY DEF LockInv, Outside, Inside
<1>4. Exclusive => Exclusive'
  BY <1>2, <1>3 DEF Exclusive, Holds
<1> QED
  BY <1>1, <1>2, <1>3, <1>4 DEF LockInv

(* A supervisor inside the lock goes on, or leaves it to its thread.        *)
LEMMA StepInside ==
  ASSUME LockInv, NEW s \in Sups, Inside(s),
         \/ /\ \E l \in {"check", "launch", "arm"} : pc' = [pc EXCEPT ![s] = l]
            /\ releasing' = releasing
         \/ /\ pc' = [pc EXCEPT ![s] = "idle"]
            /\ releasing' = [releasing EXCEPT ![s] = TRUE],
         lock' = lock, excuse' = excuse
  PROVE  LockInv'
<1>1. pc' \in [Sups -> {"down", "idle", "assess", "kill", "spawn", "claim", "steal",
                        "check", "launch", "arm"}]
  BY DEF LockInv
<1>2. releasing' \in [Sups -> BOOLEAN]
  BY DEF LockInv
<1>3. \A t \in Sups : /\ pc'[t] = "steal" => pc[t] = "steal"
                      /\ t # s => pc'[t] = pc[t] /\ releasing'[t] = releasing[t]
  BY DEF LockInv
<1>4. Exclusive => Exclusive'
  <2>1. \A t \in Sups : Holds(t)' => Holds(t)
    BY <1>3 DEF Holds, Inside, LockInv
  <2>2. Exclusive => ~(Inside(s)' /\ releasing'[s])
    BY DEF Exclusive, Inside, LockInv
  <2> QED
    BY <1>3, <2>1, <2>2 DEF Exclusive, Inside
<1> QED
  BY <1>1, <1>2, <1>3, <1>4 DEF LockInv

(* Whoever finds no lock finds nobody inside.                               *)
LEMMA StepClaim ==
  ASSUME LockInv, NEW s \in Sups, Claim(s)
  PROVE  LockInv'
<1>0. UNCHANGED releasing
  BY DEF Claim
<1>1. CASE lock = "none" /\ lock' = "fresh" /\ pc' = [pc EXCEPT ![s] = "check"]
           /\ UNCHANGED excuse
  <2>1. Exclusive => \A t \in Sups : ~Inside(t) /\ ~releasing[t]
    BY <1>1 DEF Exclusive, Holds
  <2>2. \A t \in Sups : /\ t # s => pc'[t] = pc[t]
                        /\ pc'[t] = "steal" => pc[t] = "steal"
    BY <1>1 DEF LockInv
  <2>3. Exclusive => Exclusive'
    BY <1>0, <1>1, <2>1, <2>2 DEF Exclusive, Holds, Inside
  <2>4. pc' \in [Sups -> {"down", "idle", "assess", "kill", "spawn", "claim", "steal",
                          "check", "launch", "arm"}]
    BY <1>1 DEF LockInv
  <2> QED
    BY <1>0, <1>1, <2>2, <2>3, <2>4 DEF LockInv
<1>2. CASE pc' = [pc EXCEPT ![s] = "idle"] /\ UNCHANGED <<lock, excuse>>
  BY <1>0, <1>2, StepOutside DEF Outside
<1>3. CASE pc' = [pc EXCEPT ![s] = "steal"] /\ excuse' = "stolen"
  <2>1. pc' \in [Sups -> {"down", "idle", "assess", "kill", "spawn", "claim", "steal",
                          "check", "launch", "arm"}]
    BY <1>3 DEF LockInv
  <2> QED
    BY <1>0, <1>3, <2>1 DEF LockInv
<1> QED
  BY <1>1, <1>2, <1>3 DEF Claim, GoOn, Settle, Idle

(* The theft is on record.                                                  *)
LEMMA StepSteal ==
  ASSUME LockInv, NEW s \in Sups, Steal(s)
  PROVE  LockInv'
<1>1. /\ excuse = "stolen" /\ excuse' = excuse /\ releasing' = releasing
      /\ pc' = [pc EXCEPT ![s] = "claim"]
  BY DEF LockInv, Steal, GoOn
<1>2. pc' \in [Sups -> {"down", "idle", "assess", "kill", "spawn", "claim", "steal",
                        "check", "launch", "arm"}]
  BY <1>1 DEF LockInv
<1> QED
  BY <1>1, <1>2 DEF LockInv

(* The release thread removes its own claim, there being no other.          *)
LEMMA StepRelease ==
  ASSUME LockInv, NEW s \in Sups, Release(s)
  PROVE  LockInv'
<1>1. /\ releasing[s] /\ releasing' = [releasing EXCEPT ![s] = FALSE] /\ pc' = pc
      /\ excuse' \in {excuse, "unseen"} /\ (excuse = "stolen" => excuse' = "stolen")
  BY DEF Release, Excused
<1>2. releasing' \in [Sups -> BOOLEAN]
  BY <1>1 DEF LockInv
<1>3. Exclusive => \A t \in Sups : ~Inside(t) /\ ~releasing'[t]
  BY <1>1 DEF Exclusive, Holds, LockInv
<1>4. Exclusive => Exclusive'
  BY <1>1, <1>3 DEF Exclusive, Holds, Inside
<1> QED
  BY <1>1, <1>2, <1>4 DEF LockInv

(* A heartbeat closes the record only when no spawn is under way.           *)
LEMMA StepBeat ==
  ASSUME LockInv, NEW p \in Procs, Beat(p)
  PROVE  LockInv'
<1>1. UNCHANGED <<pc, lock, releasing>>
  BY DEF Beat, ProcVars
<1>2. CASE excuse' = excuse
  BY <1>1, <1>2 DEF LockInv, Exclusive, Holds, Inside
<1>3. CASE Quiet /\ excuse' = "none"
  <2>1. \A s \in Sups : ~Inside(s) /\ ~releasing[s] /\ pc[s] # "steal"
    BY <1>3 DEF Quiet, Inside
  <2> QED
    BY <1>1, <1>3, <2>1 DEF LockInv, Exclusive, Holds, Inside
<1> QED
  BY <1>2, <1>3 DEF Beat

(* Everything else leaves the claims alone.                                 *)
LEMMA StepElsewhere ==
  ASSUME LockInv, UNCHANGED <<pc, releasing>>,
         lock' = lock \/ (lock = "fresh" /\ lock' = "stale"),
         excuse' = excuse \/ (excuse # "stolen" /\ excuse' = "unseen")
  PROVE  LockInv'
  BY DEF LockInv, Exclusive, Holds, Inside

LEMMA StepSupervise ==
  ASSUME LockInv, NEW s \in Sups, Supervise(s)
  PROVE  LockInv'
<1>1. CASE TickStoodDown(s)
  BY <1>1, StepElsewhere DEF TickStoodDown, TickVars
<1>2. CASE StandDown(s)
  <2>1. releasing' = releasing \/ releasing' = [releasing EXCEPT ![s] = FALSE]
    <3>1. PICK lives \in {FALSE, releasing[s]} : releasing' = [releasing EXCEPT ![s] = lives]
      BY <1>2 DEF StandDown
    <3>2. [releasing EXCEPT ![s] = releasing[s]] = releasing
      BY DEF LockInv
    <3> QED
      BY <3>1, <3>2
  <2> QED
    BY <1>2, <2>1, StepOutside DEF StandDown, Outside
<1>3. CASE TickRestart(s)
  BY <1>3, StepOutside DEF TickRestart, TickVars, GoOn, Outside
<1>4. CASE Tick(s)
  <2>1. pc' = [pc EXCEPT ![s] = "idle"]
    BY <1>4 DEF Tick, Respond, Charge, Idle
  <2> QED
    BY <1>4, <2>1, StepOutside DEF Tick, TickVars, Outside
<1>5. CASE KillThenSpawn(s)
  BY <1>5, StepOutside DEF KillThenSpawn, GoOn, Outside
<1>6. CASE KillFails(s)
  BY <1>6, StepOutside DEF KillFails, Idle, TickVars, Outside
<1>7. CASE EnterSpawn(s)
  <2>1. \E l \in {"idle", "claim"} : pc' = [pc EXCEPT ![s] = l]
    BY <1>7 DEF EnterSpawn, Settle, Idle, GoOn
  <2> QED
    BY <1>7, <2>1, StepOutside DEF EnterSpawn, Outside
<1>8. CASE DoubleCheck(s)
  BY <1>8, StepInside DEF DoubleCheck, Settle, Idle, GoOn, HandOver, Inside
<1>9. CASE Launch(s)
  BY <1>9, StepInside DEF Launch, GoOn, Inside
<1>10. CASE LaunchFails(s)
  BY <1>10, StepInside DEF LaunchFails, Settle, Idle, HandOver, Inside
<1>11. CASE ArmStartup(s)
  <2>1. pc' = [pc EXCEPT ![s] = "idle"]
    BY <1>11 DEF ArmStartup, Settle, Idle
  <2> QED
    BY <1>11, <2>1, StepInside DEF ArmStartup, HandOver, Inside
<1> QED
  BY <1>1, <1>2, <1>3, <1>4, <1>5, <1>6, <1>7, <1>8, <1>9, <1>10, <1>11,
     StepClaim, StepSteal DEF Supervise, Spawn

LEMMA NextLockInv == LockInv /\ [Next]_vars => LockInv'
<1> SUFFICES ASSUME LockInv, [Next]_vars PROVE LockInv'
  OBVIOUS
<1>1. ASSUME NEW s \in Sups, TickCooled(s) PROVE LockInv'
  BY <1>1, StepOutside DEF TickCooled, TickVars, GoOn, Outside
<1>2. ASSUME NEW s \in Sups, ChildExits(s) PROVE LockInv'
  BY <1>2, StepElsewhere DEF ChildExits, TickVars
<1>3. ASSUME NEW s \in Sups, TickDue(s) PROVE LockInv'
  <2>1. \E l \in {"spawn", "kill"} : pc' = [pc EXCEPT ![s] = l]
    BY <1>3 DEF TickDue, GoOn
  <2> QED
    BY <1>3, <2>1, StepOutside DEF TickDue, TickVars, Outside
<1>4. ASSUME NEW s \in Sups, Crash(s) PROVE LockInv'
  BY <1>4, StepOutside DEF Crash, Outside
<1>5. ASSUME NEW s \in Sups, Start(s) PROVE LockInv'
  <2>1. \E l \in {"idle", "spawn"} : pc' = [pc EXCEPT ![s] = l]
    BY <1>5 DEF Start, Idle, GoOn
  <2> QED
    BY <1>5, <2>1, StepOutside DEF Start, TickVars, Outside
<1>6. ASSUME NEW p \in Procs, Retire(p) \/ Die(p) \/ Hang(p) \/ Resume(p) PROVE LockInv'
  BY <1>6, StepElsewhere DEF Retire, Die, Hang, Resume, ProcVars
<1>7. ASSUME LockAges \/ BeatAges PROVE LockInv'
  BY <1>7, StepElsewhere DEF LockAges, BeatAges, Excused, LockInv
<1>8. ASSUME RequestRestart \/ RequestStandDown \/ ClearStandDown PROVE LockInv'
  BY <1>8, StepElsewhere DEF RequestRestart, RequestStandDown, ClearStandDown
<1>9. ASSUME UNCHANGED vars PROVE LockInv'
  BY <1>9, StepElsewhere DEF vars
<1> QED
  BY <1>1, <1>2, <1>3, <1>4, <1>5, <1>6, <1>7, <1>8, <1>9,
     StepSupervise, StepRelease, StepBeat DEF Next

(* Nobody is there at first.                                                *)
LEMMA InitLockInv == Init => LockInv
  BY DEF Init, LockInv, Exclusive, Holds, Inside

(* LockExcludes: two supervisors are inside the spawn lock at once only     *)
(* after one of them took a lock for abandoned (supervisor.py,              *)
(* try_claim_spawn and release_spawn).                                      *)
THEOREM LockExcludesHolds == Spec => []LockExcludes
<1>1. LockInv => LockExcludes
  BY DEF LockInv, Exclusive, Holds, LockExcludes
<1> QED
  BY <1>1, InitLockInv, NextLockInv, PTL DEF Spec

-----------------------------------------------------------------------------
(***************************************************************************)
(* Types.  What the helpers do to a supervisor's record, and what a step of *)
(* a supervisor writes.                                                     *)
(***************************************************************************)
Places == {"down", "idle", "assess", "kill", "spawn", "claim", "steal", "check",
           "launch", "arm"}

(* A record that is at the limit has its brake on.                          *)
SoundMemory == { m \in Memory : m.fails = MaxFailures => m.safe }
SoundDurable == { d \in Durable : d.fails = MaxFailures => d.safe }

(* The fields a helper leaves alone in a record of the right type.          *)
SameBut(m, n) ==
    /\ n \in SoundMemory
    /\ n.tick = m.tick /\ n.scheduled = m.scheduled

LEMMA RecordHelpers ==
  ASSUME NEW m \in SoundMemory
  PROVE  /\ \A n \in Decayed(m) : SameBut(m, n)
         /\ \A n \in Outcomes(m) : SameBut(m, n)
         /\ Settled(m) \in SoundMemory /\ Settled(m).tick = FALSE
         /\ Settled(m).scheduled = (m.scheduled /\ ~m.tick)
         /\ Kept(m) \in SoundDurable /\ Kept(m).scheduled = m.scheduled
<1> USE SupervisionAssumption DEF SupervisionAssumption
<1>1. \A n \in Decayed(m) : SameBut(m, n)
  <2> SUFFICES ASSUME NEW k \in 0..m.fails
               PROVE  SameBut(m, [m EXCEPT !.fails = k,
                                           !.safe = m.safe /\ (m.fault \/ k # 0)])
    BY DEF Decayed
  <2> DEFINE still == m.safe /\ (m.fault \/ k # 0)
  <2>1. still \in BOOLEAN /\ k \in 0..MaxFailures
    BY DEF SoundMemory, Memory
  <2>b. k = MaxFailures => still
    <3>1. m.fails \in 0..MaxFailures /\ (m.fails = MaxFailures => m.safe)
      BY DEF SoundMemory, Memory
    <3>2. k = MaxFailures => m.fails = MaxFailures /\ k # 0
      BY <3>1
    <3> QED
      BY <3>1, <3>2
  <2> HIDE DEF still
  <2>2. SameBut(m, [m EXCEPT !.fails = k, !.safe = still])
    BY <2>1, <2>b DEF SameBut, SoundMemory, Memory
  <2> QED
    BY <2>2 DEF still
<1>2. \A n \in Outcomes(m) : SameBut(m, n)
  BY DEF Outcomes, Terminated, SameBut, SoundMemory, Memory
<1>3. /\ Settled(m) \in SoundMemory /\ Settled(m).tick = FALSE
      /\ Settled(m).scheduled = (m.scheduled /\ ~m.tick)
  BY DEF Settled, SoundMemory, Memory
<1>4. Kept(m) \in SoundDurable /\ Kept(m).scheduled = m.scheduled
  BY DEF Kept, SoundMemory, Memory, SoundDurable, Durable
<1> QED
  BY <1>1, <1>2, <1>3, <1>4

LEMMA LoadedRecord ==
  ASSUME NEW d \in SoundDurable
  PROVE  /\ Loaded(d) \in SoundMemory /\ Loaded(d).tick = FALSE
         /\ Loaded(d).scheduled = d.scheduled
  BY DEF Loaded, SoundMemory, Memory, SoundDurable, Durable

RecordsOK ==
    /\ pc \in [Sups -> Places]
    /\ mem \in [Sups -> SoundMemory] /\ disk \in [Sups -> SoundDurable]

(* A step of one supervisor: where it goes, and with which record.          *)
Turns(s, l, m) ==
    /\ pc' = [pc EXCEPT ![s] = l]
    /\ mem' = [mem EXCEPT ![s] = m]
    /\ disk' = disk \/ disk' = [disk EXCEPT ![s] = Kept(m)]

LEMMA TurnsOK ==
  ASSUME RecordsOK, NEW s \in Sups, NEW l \in Places, NEW m \in SoundMemory, Turns(s, l, m)
  PROVE  RecordsOK'
<1>1. Kept(m) \in SoundDurable
  BY RecordHelpers
<1>2. pc' \in [Sups -> Places] /\ mem' \in [Sups -> SoundMemory]
  BY DEF RecordsOK, Turns
<1>3. disk' \in [Sups -> SoundDurable]
  BY <1>1 DEF RecordsOK, Turns
<1> QED
  BY <1>2, <1>3 DEF RecordsOK

-----------------------------------------------------------------------------
(***************************************************************************)
(* Crash loops.  A scheduled restart is paid for by the failure that        *)
(* scheduled it, until the launch it is for has happened.                   *)
(***************************************************************************)
Accounted(l, m, c) ==
    /\ m.tick => m.scheduled
    /\ l \in {"down", "idle", "assess"} => ~m.tick
    /\ m.scheduled => c = 1 \/ (m.tick /\ l = "arm")

ChargeInv ==
    /\ RecordsOK
    /\ credit \in [Sups -> {0, 1}]
    /\ \A s \in Sups : /\ Accounted(pc[s], mem[s], credit[s])
                       /\ pc[s] = "down" /\ disk[s].scheduled => credit[s] = 1

(* A step of one supervisor that keeps the account. *)
Advances(s) ==
    \E l \in Places \ {"down"}, m \in SoundMemory, c \in {0, 1} :
        /\ Turns(s, l, m) /\ credit' = [credit EXCEPT ![s] = c]
        /\ Accounted(l, m, c)

LEMMA AdvancesCharge ==
  ASSUME ChargeInv, NEW s \in Sups, Advances(s)
  PROVE  ChargeInv'
<1>1. PICK l \in Places \ {"down"}, m \in SoundMemory, c \in {0, 1} :
        /\ Turns(s, l, m) /\ credit' = [credit EXCEPT ![s] = c]
        /\ Accounted(l, m, c)
  BY DEF Advances
<1>2. RecordsOK'
  BY <1>1, TurnsOK DEF ChargeInv
<1>3. credit' \in [Sups -> {0, 1}]
  BY <1>1 DEF ChargeInv
<1>4. pc'[s] = l /\ mem'[s] = m /\ credit'[s] = c
  BY <1>1 DEF Turns, ChargeInv, RecordsOK
<1>5. \A t \in Sups \ {s} : /\ pc'[t] = pc[t] /\ mem'[t] = mem[t] /\ disk'[t] = disk[t]
                            /\ credit'[t] = credit[t]
  BY <1>1 DEF Turns, ChargeInv, RecordsOK
<1>6. ASSUME NEW t \in Sups
      PROVE  /\ Accounted(pc'[t], mem'[t], credit'[t])
             /\ pc'[t] = "down" /\ disk'[t].scheduled => credit'[t] = 1
  <2>1. CASE t = s
    BY <1>1, <1>4, <2>1
  <2>2. CASE t # s
    BY <1>5, <2>2 DEF ChargeInv
  <2> QED
    BY <2>1, <2>2
<1> QED
  BY <1>2, <1>3, <1>6 DEF ChargeInv, Accounted

(* The record goes on to another place, or the spawn is over.               *)
LEMMA GoesOn ==
  ASSUME ChargeInv, NEW s \in Sups, pc[s] # "arm",
         NEW l \in Places \ {"down", "idle", "assess"},
         NEW m \in SoundMemory, SameBut(mem[s], m),
         GoOn(s, l, m), disk' = disk \/ disk' = [disk EXCEPT ![s] = Kept(m)],
         UNCHANGED credit
  PROVE  Advances(s)
<1>1. Turns(s, l, m) /\ credit' = [credit EXCEPT ![s] = credit[s]]
  BY DEF GoOn, Turns, ChargeInv
<1>2. Accounted(l, m, credit[s])
  BY DEF ChargeInv, Accounted, SameBut
<1> QED
  BY <1>1, <1>2 DEF Advances, ChargeInv

LEMMA Settles ==
  ASSUME ChargeInv, NEW s \in Sups, NEW m, SameBut(mem[s], m), Settle(s, m),
         UNCHANGED credit
  PROVE  Advances(s)
<1>1. m \in SoundMemory /\ m.tick = mem[s].tick /\ m.scheduled = mem[s].scheduled
  BY DEF SameBut
<1>2. /\ Settled(m) \in SoundMemory /\ Settled(m).tick = FALSE
      /\ Settled(m).scheduled = (m.scheduled /\ ~m.tick)
  BY <1>1, RecordHelpers
<1>3. Turns(s, "idle", Settled(m)) /\ credit' = [credit EXCEPT ![s] = credit[s]]
  BY DEF Settle, Idle, Save, Saved, SaveFails, Unsaved, Turns, ChargeInv
<1>4. Accounted("idle", Settled(m), credit[s])
  BY <1>1, <1>2 DEF ChargeInv, Accounted
<1> QED
  BY <1>2, <1>3, <1>4 DEF Advances, ChargeInv, Places

(* A record of the right type is like itself. *)
LEMMA SameSelf ==
  ASSUME ChargeInv, NEW s \in Sups
  PROVE  mem[s] \in SoundMemory /\ SameBut(mem[s], mem[s])
  BY DEF ChargeInv, RecordsOK, SameBut

LEMMA SpawnAdvances ==
  ASSUME ChargeInv, NEW s \in Sups,
         EnterSpawn(s) \/ Claim(s) \/ Steal(s) \/ DoubleCheck(s) \/ LaunchFails(s)
  PROVE  Advances(s)
<1>m. mem[s] \in SoundMemory /\ SameBut(mem[s], mem[s])
  BY SameSelf
<1>p. {"claim", "check", "launch", "steal"} \subseteq Places \ {"down", "idle", "assess"}
  BY DEF Places
<1>1. CASE EnterSpawn(s)
  <2> DEFINE m == mem[s]
             adopted == [m EXCEPT !.starting = FALSE, !.died = FALSE]
             going == [m EXCEPT !.starting = FALSE]
  <2>1. SameBut(m, adopted) /\ SameBut(m, going) /\ going \in SoundMemory /\ adopted \in SoundMemory
    BY <1>m DEF SameBut, SoundMemory, Memory
  <2>2. \A d \in Decayed(adopted) : SameBut(m, d)
    <3>1. \A d \in Decayed(adopted) : SameBut(adopted, d)
      <4> HIDE DEF adopted
      <4> QED
        BY <2>1, RecordHelpers
    <3> QED
      BY <2>1, <3>1 DEF SameBut
  <2>3. UNCHANGED credit /\ pc[s] = "spawn"
    BY <1>1 DEF EnterSpawn, SpawnVars
  <2>4. \/ Settle(s, m)
        \/ \E d \in (IF m.starting THEN Decayed(adopted) ELSE {adopted}) : Settle(s, d)
        \/ GoOn(s, "claim", going) /\ Unsaved
    BY <1>1 DEF EnterSpawn
  <2>5. CASE Settle(s, m)
    BY <1>m, <2>3, <2>5, Settles
  <2>6. CASE \E d \in (IF m.starting THEN Decayed(adopted) ELSE {adopted}) : Settle(s, d)
    <3>1. PICK d \in (IF m.starting THEN Decayed(adopted) ELSE {adopted}) : Settle(s, d)
      BY <2>6
    <3>2. SameBut(m, d)
      BY <2>1, <2>2, <3>1
    <3> QED
      BY <2>3, <3>1, <3>2, Settles
  <2>7. CASE GoOn(s, "claim", going) /\ Unsaved
    <3>1. disk' = disk
      BY <2>7 DEF Unsaved
    <3> HIDE DEF going
    <3> QED
      BY <1>p, <2>1, <2>3, <2>7, <3>1, GoesOn
  <2> QED
    BY <2>4, <2>5, <2>6, <2>7
<1>2. CASE Claim(s)
  <2>1. UNCHANGED credit /\ pc[s] # "arm"
    BY <1>2 DEF Claim, SpawnVars
  <2>2. \/ GoOn(s, "check", mem[s]) /\ disk' = disk
        \/ GoOn(s, "steal", mem[s]) /\ disk' = disk
        \/ Settle(s, mem[s])
    BY <1>2 DEF Claim, Unsaved
  <2> QED
    BY <1>m, <1>p, <2>1, <2>2, GoesOn, Settles
<1>3. CASE Steal(s)
  BY <1>m, <1>p, <1>3, GoesOn DEF Steal, SpawnVars
<1>4. CASE DoubleCheck(s)
  <2>1. UNCHANGED credit /\ pc[s] # "arm"
    BY <1>4 DEF DoubleCheck, SpawnVars
  <2>2. (GoOn(s, "launch", mem[s]) /\ disk' = disk) \/ Settle(s, mem[s])
    BY <1>4 DEF DoubleCheck, Unsaved
  <2> QED
    BY <1>m, <1>p, <2>1, <2>2, GoesOn, Settles
<1>5. CASE LaunchFails(s)
  BY <1>m, <1>5, Settles DEF LaunchFails, SpawnVars
<1> QED
  BY <1>1, <1>2, <1>3, <1>4, <1>5

(* A step that leaves the credit alone and a record that needs none, or     *)
(* finds its restart paid for.                                              *)
LEMMA TurnsAdvance ==
  ASSUME ChargeInv, NEW s \in Sups, NEW l \in Places \ {"down"}, NEW m \in SoundMemory,
         Turns(s, l, m), UNCHANGED credit, Accounted(l, m, credit[s])
  PROVE  Advances(s)
<1>1. credit' = [credit EXCEPT ![s] = credit[s]] /\ credit[s] \in {0, 1}
  BY DEF ChargeInv
<1> QED
  BY <1>1 DEF Advances

LEMMA TickAdvances ==
  ASSUME ChargeInv, NEW s \in Sups, Tick(s)
  PROVE  Advances(s)
<1> DEFINE m == mem[s]
<1>1. m \in SoundMemory /\ ~m.tick /\ (m.scheduled => credit[s] = 1) /\ credit[s] \in {0, 1}
  BY DEF Tick, ChargeInv, RecordsOK, Accounted
<1>2. PICK state : Respond(s, m, state)
  BY DEF Tick
<1>p. "idle" \in Places \ {"down"}
  BY DEF Places
<1> HIDE DEF m
<1>3. CASE Idle(s, m) /\ Noticed(s, m) /\ UNCHANGED credit
  <2>1. Turns(s, "idle", m)
    BY <1>3 DEF Idle, Noticed, Saved, Unsaved, Turns
  <2>2. Accounted("idle", m, credit[s])
    BY <1>1 DEF Accounted
  <2> QED
    BY <1>1, <1>p, <1>3, <2>1, <2>2, TurnsAdvance
<1>4. CASE /\ \E d \in Decayed([m EXCEPT !.starting = FALSE]) :
                LET healthy == [d EXCEPT !.scheduled = FALSE]
                IN  /\ Idle(s, healthy)
                    /\ IF m.scheduled THEN Save(s, healthy) ELSE Noticed(s, healthy)
           /\ UNCHANGED credit
  <2> DEFINE up == [m EXCEPT !.starting = FALSE]
  <2>1. up \in SoundMemory /\ ~up.tick
    BY <1>1 DEF SoundMemory, Memory
  <2>2. PICK d \in Decayed(up) :
           /\ Idle(s, [d EXCEPT !.scheduled = FALSE])
           /\ IF m.scheduled THEN Save(s, [d EXCEPT !.scheduled = FALSE])
                             ELSE Noticed(s, [d EXCEPT !.scheduled = FALSE])
    BY <1>4
  <2> HIDE DEF up
  <2>3. d \in SoundMemory /\ ~d.tick
    BY <2>1, RecordHelpers DEF SameBut
  <2> DEFINE healthy == [d EXCEPT !.scheduled = FALSE]
  <2>4. healthy \in SoundMemory /\ ~healthy.tick /\ ~healthy.scheduled
    BY <2>3 DEF SoundMemory, Memory
  <2>5. Turns(s, "idle", healthy)
    BY <2>2 DEF Idle, Save, Noticed, Saved, SaveFails, Unsaved, Turns
  <2> HIDE DEF healthy
  <2>6. Accounted("idle", healthy, credit[s])
    BY <2>4 DEF Accounted
  <2> QED
    BY <1>4, <1>p, <2>4, <2>5, <2>6, TurnsAdvance
<1>5. CASE ~m.safe /\ Charge(s, m)
  <2>1. PICK older \in 0..m.fails :
          LET n == older + 1
              charged == [m EXCEPT !.fails = n]
              brake == [charged EXCEPT !.safe = TRUE, !.scheduled = FALSE]
              wait == [charged EXCEPT !.scheduled = TRUE]
              stuck == [wait EXCEPT !.safe = TRUE, !.fault = TRUE]
          IN  /\ credit' = [credit EXCEPT ![s] = IF @ < 1 THEN @ + 1 ELSE @]
              /\ \/ n >= MaxFailures /\ Idle(s, brake) /\ Save(s, brake)
                 \/ n < MaxFailures /\ Idle(s, wait) /\ Saved(s, wait)
                 \/ n < MaxFailures /\ Idle(s, stuck) /\ SaveFails
    BY <1>5 DEF Charge
  <2> DEFINE n == older + 1
             charged == [m EXCEPT !.fails = n]
             brake == [charged EXCEPT !.safe = TRUE, !.scheduled = FALSE]
             wait == [charged EXCEPT !.scheduled = TRUE]
             stuck == [wait EXCEPT !.safe = TRUE, !.fault = TRUE]
  <2>0. older \in 0..m.fails
    BY <2>1
  <2>2. credit' = [credit EXCEPT ![s] = 1]
    <3>1. credit' = [credit EXCEPT ![s] = IF credit[s] < 1 THEN credit[s] + 1 ELSE credit[s]]
      BY <2>1
    <3>2. (IF credit[s] < 1 THEN credit[s] + 1 ELSE credit[s]) = 1
      BY <1>1
    <3> QED
      BY <3>1, <3>2
  <2>4. m.fails \in 0..MaxFailures
    BY <1>1 DEF SoundMemory, Memory
  <2>5. CASE n < MaxFailures /\ (Turns(s, "idle", wait) \/ Turns(s, "idle", stuck))
    <3>1. n \in 0..MaxFailures /\ n # MaxFailures
      BY <2>0, <2>4, <2>5, SupervisionAssumption DEF SupervisionAssumption
    <3> HIDE DEF n
    <3>2. wait \in SoundMemory /\ wait.scheduled /\ ~wait.tick
      BY <1>1, <3>1 DEF SoundMemory, Memory
    <3>3. stuck \in SoundMemory /\ stuck.scheduled /\ ~stuck.tick
      BY <1>1, <3>1 DEF SoundMemory, Memory
    <3> HIDE DEF wait, stuck
    <3>4. Accounted("idle", wait, 1) /\ Accounted("idle", stuck, 1)
      BY <3>2, <3>3 DEF Accounted
    <3> QED
      BY <1>p, <2>2, <2>5, <3>2, <3>3, <3>4 DEF Advances
  <2>6. CASE n >= MaxFailures /\ Turns(s, "idle", brake)
    <3>1. n \in 0..MaxFailures
      <4>1. m.fails # MaxFailures
        BY <1>1, <1>5 DEF SoundMemory, Memory
      <4> QED
        BY <2>0, <2>4, <4>1, SupervisionAssumption DEF SupervisionAssumption
    <3> HIDE DEF n
    <3>2. brake \in SoundMemory /\ ~brake.scheduled /\ ~brake.tick
      BY <1>1, <3>1 DEF SoundMemory, Memory
    <3> HIDE DEF brake
    <3>3. Accounted("idle", brake, 1)
      BY <3>2 DEF Accounted
    <3> QED
      BY <1>p, <2>2, <2>6, <3>2, <3>3 DEF Advances
  <2>7. \/ n < MaxFailures /\ (Turns(s, "idle", wait) \/ Turns(s, "idle", stuck))
        \/ n >= MaxFailures /\ Turns(s, "idle", brake)
    BY <2>1 DEF Idle, Save, Saved, SaveFails, Turns
  <2> QED
    BY <2>5, <2>6, <2>7
<1>6. \/ Idle(s, m) /\ Noticed(s, m) /\ UNCHANGED credit
      \/ /\ \E d \in Decayed([m EXCEPT !.starting = FALSE]) :
              LET healthy == [d EXCEPT !.scheduled = FALSE]
              IN  /\ Idle(s, healthy)
                  /\ IF m.scheduled THEN Save(s, healthy) ELSE Noticed(s, healthy)
         /\ UNCHANGED credit
      \/ ~m.safe /\ Charge(s, m)
  BY <1>2 DEF Respond
<1> QED
  BY <1>3, <1>4, <1>5, <1>6

(* The other steps of a tick, and the one that begins a supervision.        *)
LEMMA RestartAdvances ==
  ASSUME ChargeInv, NEW s \in Sups,
         TickRestart(s) \/ TickCooled(s) \/ TickDue(s) \/ KillFails(s) \/ Start(s)
  PROVE  Advances(s)
<1>m. mem[s] \in SoundMemory /\ Accounted(pc[s], mem[s], credit[s])
  BY DEF ChargeInv, RecordsOK
<1>p. {"idle", "assess", "kill", "spawn"} \subseteq Places \ {"down"}
  BY DEF Places
<1>z. 0 # MaxFailures /\ 0 \in 0..MaxFailures
  BY SupervisionAssumption DEF SupervisionAssumption
<1>1. CASE TickRestart(s)
  <2> DEFINE m == [mem[s] EXCEPT !.safe = FALSE, !.fault = FALSE, !.fails = 0,
                                 !.scheduled = FALSE, !.tick = FALSE]
  <2>1. m \in SoundMemory /\ ~m.tick /\ ~m.scheduled
    BY <1>m, <1>z DEF SoundMemory, Memory
  <2>2. Turns(s, "kill", m) /\ UNCHANGED credit
    BY <1>1 DEF TickRestart, GoOn, Save, Saved, SaveFails, Turns
  <2> HIDE DEF m
  <2>3. Accounted("kill", m, credit[s])
    BY <2>1 DEF Accounted
  <2> QED
    BY <1>p, <2>1, <2>2, <2>3, TurnsAdvance
<1>2. CASE TickCooled(s)
  <2> DEFINE m == [mem[s] EXCEPT !.safe = FALSE, !.scheduled = FALSE, !.fails = 0]
  <2>1. m \in SoundMemory /\ ~m.tick /\ ~m.scheduled
    BY <1>m, <1>z, <1>2 DEF TickCooled, Accounted, SoundMemory, Memory
  <2>2. Turns(s, "assess", m) /\ UNCHANGED credit
    BY <1>2 DEF TickCooled, GoOn, Save, Saved, SaveFails, Turns
  <2> HIDE DEF m
  <2>3. Accounted("assess", m, credit[s])
    BY <2>1 DEF Accounted
  <2> QED
    BY <1>p, <2>1, <2>2, <2>3, TurnsAdvance
<1>3. CASE TickDue(s)
  <2> DEFINE m == [mem[s] EXCEPT !.tick = TRUE]
  <2>1. m \in SoundMemory /\ m.tick /\ m.scheduled /\ credit[s] = 1
    BY <1>m, <1>3 DEF TickDue, Accounted, SoundMemory, Memory
  <2>2. PICK l \in {"spawn", "kill"} : GoOn(s, l, m)
    BY <1>3 DEF TickDue
  <2>3. Turns(s, l, m) /\ UNCHANGED credit
    BY <1>3, <2>2 DEF TickDue, GoOn, Turns
  <2> HIDE DEF m
  <2>4. Accounted(l, m, credit[s])
    BY <2>1, <2>2 DEF Accounted
  <2> QED
    BY <1>p, <2>1, <2>2, <2>3, <2>4, TurnsAdvance
<1>4. CASE KillFails(s)
  <2> DEFINE kept == [mem[s] EXCEPT !.scheduled = TRUE, !.tick = FALSE]
             m == IF mem[s].tick THEN kept ELSE mem[s]
  <2>1. kept \in SoundMemory /\ kept.scheduled /\ ~kept.tick
    BY <1>m DEF SoundMemory, Memory
  <2>2. mem[s].tick => credit[s] = 1
    BY <1>m, <1>4 DEF KillFails, Accounted
  <2>3. Turns(s, "idle", m) /\ UNCHANGED credit
    BY <1>4 DEF KillFails, Idle, Save, Saved, SaveFails, Unsaved, Turns
  <2> HIDE DEF kept
  <2>4. m \in SoundMemory /\ Accounted("idle", m, credit[s])
    BY <1>m, <1>4, <2>1, <2>2 DEF KillFails, Accounted
  <2> HIDE DEF m
  <2> QED
    BY <1>p, <2>3, <2>4, TurnsAdvance
<1>5. CASE Start(s)
  <2> DEFINE m == Loaded(disk[s])
  <2>1. m \in SoundMemory /\ ~m.tick /\ (m.scheduled => credit[s] = 1)
    BY <1>5, LoadedRecord DEF Start, ChargeInv, RecordsOK
  <2>2. PICK l \in {"idle", "spawn"} : GoOn(s, l, m)
    BY <1>5 DEF Start, Idle, GoOn
  <2>3. Turns(s, l, m) /\ UNCHANGED credit
    BY <1>5, <2>2 DEF Start, GoOn, Turns
  <2> HIDE DEF m
  <2>4. Accounted(l, m, credit[s])
    BY <2>1, <2>2 DEF Accounted
  <2> QED
    BY <1>p, <2>1, <2>2, <2>3, <2>4, TurnsAdvance
<1> QED
  BY <1>1, <1>2, <1>3, <1>4, <1>5

(* The launch a failure paid for, and what comes before and after it.       *)
LEMMA LaunchAdvances ==
  ASSUME ChargeInv, NEW s \in Sups, KillThenSpawn(s) \/ Launch(s) \/ ArmStartup(s)
  PROVE  Advances(s)
<1>m. mem[s] \in SoundMemory /\ SameBut(mem[s], mem[s])
      /\ Accounted(pc[s], mem[s], credit[s]) /\ credit[s] \in {0, 1}
  BY SameSelf DEF ChargeInv
<1>p. {"spawn", "arm"} \subseteq Places \ {"down", "idle", "assess"}
  BY DEF Places
<1>1. CASE KillThenSpawn(s)
  <2>1. PICK done \in Outcomes(mem[s]) : GoOn(s, "spawn", done)
    BY <1>1 DEF KillThenSpawn
  <2>2. SameBut(mem[s], done) /\ done \in SoundMemory
    BY <1>m, <2>1, RecordHelpers DEF SameBut
  <2> QED
    BY <1>1, <1>p, <2>1, <2>2, GoesOn DEF KillThenSpawn
<1>2. CASE Launch(s)
  <2>1. PICK p \in Procs : GoOn(s, "arm", [mem[s] EXCEPT !.child = p, !.waits = FALSE])
    BY <1>2 DEF Launch
  <2> DEFINE m == [mem[s] EXCEPT !.child = p, !.waits = FALSE]
             c == IF m.tick THEN 0 ELSE credit[s]
  <2>2. m \in SoundMemory /\ m.tick = mem[s].tick /\ m.scheduled = mem[s].scheduled
    BY <1>m DEF SoundMemory, Memory
  <2>3. Turns(s, "arm", m)
    BY <1>2, <2>1 DEF Launch, GoOn, Turns
  <2> HIDE DEF m
  <2>4. mem[s].tick => credit[s] = 1
    BY <1>m, <1>2 DEF Launch, Accounted
  <2>5. credit' = [credit EXCEPT ![s] = c]
    <3>1. credit' = [credit EXCEPT ![s] = IF mem[s].tick THEN credit[s] - 1 ELSE credit[s]]
      BY <1>2 DEF Launch
    <3>2. (IF mem[s].tick THEN credit[s] - 1 ELSE credit[s]) = c
      BY <1>m, <2>2, <2>4
    <3> QED
      BY <3>1, <3>2
  <2>6. c \in {0, 1} /\ Accounted("arm", m, c)
    BY <1>m, <1>2, <2>2 DEF Launch, Accounted
  <2> HIDE DEF c
  <2> QED
    BY <1>p, <2>2, <2>3, <2>5, <2>6 DEF Advances
<1>3. CASE ArmStartup(s)
  <2> DEFINE armed == [mem[s] EXCEPT !.starting = TRUE, !.died = FALSE, !.waits = TRUE]
  <2>1. SameBut(mem[s], armed)
    BY <1>m DEF SameBut, SoundMemory, Memory
  <2>2. \A done \in Outcomes(mem[s]) : SameBut(mem[s], done)
    BY <1>m, RecordHelpers
  <2>3. \/ \E done \in Outcomes(mem[s]) : Settle(s, done)
        \/ Settle(s, mem[s]) \/ Settle(s, armed)
    BY <1>3 DEF ArmStartup
  <2>4. UNCHANGED credit
    BY <1>3 DEF ArmStartup
  <2> HIDE DEF armed
  <2> QED
    BY <1>m, <2>1, <2>2, <2>3, <2>4, Settles
<1> QED
  BY <1>1, <1>2, <1>3

(* What becomes of a supervisor that ends: its record is what it left on    *)
(* disk, and a restart that is scheduled there is paid for.                 *)
LEMMA EndsCharge ==
  ASSUME ChargeInv, NEW s \in Sups, StandDown(s) \/ Crash(s)
  PROVE  ChargeInv'
<1> DEFINE m == Loaded(disk[s])
<1>1. /\ pc' = [pc EXCEPT ![s] = "down"] /\ mem' = [mem EXCEPT ![s] = m]
      /\ disk' = disk /\ credit' = Reloaded(s)
  BY DEF StandDown, Crash
<1>2. m \in SoundMemory /\ ~m.tick /\ m.scheduled = disk[s].scheduled
  BY LoadedRecord DEF ChargeInv, RecordsOK
<1> HIDE DEF m
<1>3. RecordsOK'
  BY <1>1, <1>2 DEF ChargeInv, RecordsOK, Places
<1>4. \E c \in {0, 1} : credit' = [credit EXCEPT ![s] = c] /\ (disk[s].scheduled => c = 1)
  <2>1. CASE disk[s] # Kept(mem[s]) \/ pc[s] = "arm"
    BY <1>1, <2>1 DEF Reloaded
  <2>2. CASE disk[s] = Kept(mem[s]) /\ pc[s] # "arm"
    <3>1. credit' = [credit EXCEPT ![s] = credit[s]] /\ credit[s] \in {0, 1}
      BY <1>1, <2>2 DEF Reloaded, ChargeInv
    <3>2. disk[s].scheduled = mem[s].scheduled
      BY <2>2 DEF Kept
    <3> QED
      BY <2>2, <3>1, <3>2 DEF ChargeInv, Accounted
  <2> QED
    BY <2>1, <2>2
<1>5. PICK c \in {0, 1} : credit' = [credit EXCEPT ![s] = c] /\ (disk[s].scheduled => c = 1)
  BY <1>4
<1>6. credit' \in [Sups -> {0, 1}]
  BY <1>5 DEF ChargeInv
<1>7. ASSUME NEW t \in Sups
      PROVE  /\ Accounted(pc'[t], mem'[t], credit'[t])
             /\ pc'[t] = "down" /\ disk'[t].scheduled => credit'[t] = 1
  <2>1. CASE t = s
    <3>1. pc'[s] = "down" /\ mem'[s] = m /\ credit'[s] = c
      BY <1>1, <1>5 DEF ChargeInv, RecordsOK
    <3> QED
      BY <1>1, <1>2, <1>5, <2>1, <3>1 DEF Accounted
  <2>2. CASE t # s
    <3>1. pc'[t] = pc[t] /\ mem'[t] = mem[t] /\ credit'[t] = credit[t]
      BY <1>1, <1>5, <2>2 DEF ChargeInv, RecordsOK
    <3> QED
      BY <1>1, <3>1 DEF ChargeInv
  <2> QED
    BY <2>1, <2>2
<1> QED
  BY <1>3, <1>6, <1>7 DEF ChargeInv, Accounted

(* A waiter only notes that the process is gone.                            *)
LEMMA ExitsCharge ==
  ASSUME ChargeInv, NEW s \in Sups, ChildExits(s)
  PROVE  ChargeInv'
<1> DEFINE m == [mem[s] EXCEPT !.died = TRUE, !.waits = FALSE]
<1>1. m \in SoundMemory /\ m.tick = mem[s].tick /\ m.scheduled = mem[s].scheduled
  BY DEF ChargeInv, RecordsOK, SoundMemory, Memory
<1>2. mem' = [mem EXCEPT ![s] = m] /\ UNCHANGED <<pc, disk, credit>>
  BY DEF ChildExits, ChargeInv, RecordsOK
<1> HIDE DEF m
<1>3. RecordsOK'
  BY <1>1, <1>2 DEF ChargeInv, RecordsOK
<1>4. \A t \in Sups : mem'[t].tick = mem[t].tick /\ mem'[t].scheduled = mem[t].scheduled
  BY <1>1, <1>2 DEF ChargeInv, RecordsOK
<1> QED
  BY <1>2, <1>3, <1>4 DEF ChargeInv, Accounted

LEMMA NextChargeInv == ChargeInv /\ [Next]_vars => ChargeInv'
<1> SUFFICES ASSUME ChargeInv, [Next]_vars PROVE ChargeInv'
  OBVIOUS
<1>1. ASSUME UNCHANGED <<pc, mem, disk, credit>> PROVE ChargeInv'
  BY <1>1 DEF ChargeInv, RecordsOK, Accounted
<1>2. ASSUME NEW s \in Sups, Supervise(s) PROVE ChargeInv'
  <2>1. CASE TickStoodDown(s)
    BY <1>1, <2>1 DEF TickStoodDown
  <2>2. CASE StandDown(s)
    BY <2>2, EndsCharge
  <2>3. CASE TickRestart(s) \/ KillFails(s)
    BY <2>3, RestartAdvances, AdvancesCharge
  <2>4. CASE Tick(s)
    BY <2>4, TickAdvances, AdvancesCharge
  <2>5. CASE KillThenSpawn(s) \/ Launch(s) \/ ArmStartup(s)
    BY <2>5, LaunchAdvances, AdvancesCharge
  <2>6. CASE EnterSpawn(s) \/ Claim(s) \/ Steal(s) \/ DoubleCheck(s) \/ LaunchFails(s)
    BY <2>6, SpawnAdvances, AdvancesCharge
  <2> QED
    BY <1>2, <2>1, <2>2, <2>3, <2>4, <2>5, <2>6 DEF Supervise, Spawn
<1>3. ASSUME NEW s \in Sups, TickCooled(s) \/ TickDue(s) \/ Start(s) PROVE ChargeInv'
  BY <1>3, RestartAdvances, AdvancesCharge
<1>4. ASSUME NEW s \in Sups, Release(s) PROVE ChargeInv'
  BY <1>1, <1>4 DEF Release
<1>5. ASSUME NEW s \in Sups, ChildExits(s) PROVE ChargeInv'
  BY <1>5, ExitsCharge
<1>6. ASSUME NEW s \in Sups, Crash(s) PROVE ChargeInv'
  BY <1>6, EndsCharge
<1>7. ASSUME NEW p \in Procs, Beat(p) \/ Retire(p) \/ Die(p) \/ Hang(p) \/ Resume(p)
      PROVE  ChargeInv'
  BY <1>1, <1>7 DEF Beat, Retire, Die, Hang, Resume, ProcVars
<1>8. ASSUME LockAges \/ BeatAges \/ RequestRestart \/ RequestStandDown \/ ClearStandDown
      PROVE  ChargeInv'
  BY <1>1, <1>8 DEF LockAges, BeatAges, RequestRestart, RequestStandDown, ClearStandDown
<1>9. ASSUME UNCHANGED vars PROVE ChargeInv'
  BY <1>1, <1>9 DEF vars
<1> QED
  BY <1>2, <1>3, <1>4, <1>5, <1>6, <1>7, <1>8, <1>9 DEF Next

LEMMA InitChargeInv == Init => ChargeInv
<1> SUFFICES ASSUME Init PROVE ChargeInv
  OBVIOUS
<1>1. Clean \in SoundDurable /\ ~Clean.scheduled
  BY SupervisionAssumption DEF SupervisionAssumption, Clean, SoundDurable, Durable
<1>2. Loaded(Clean) \in SoundMemory /\ ~Loaded(Clean).tick /\ ~Loaded(Clean).scheduled
  BY <1>1, LoadedRecord
<1> HIDE DEF Clean
<1>3. RecordsOK
  BY <1>1, <1>2 DEF Init, RecordsOK, Places
<1> QED
  BY <1>1, <1>2, <1>3 DEF Init, ChargeInv, Accounted

(* CrashLoopIsCharged: no supervisor relaunches a component more often than *)
(* it charged failures (supervisor.py, _tick_locked, _register_failure),     *)
(* whatever crashes, stand-downs and failed writes of its record come in    *)
(* between.                                                                 *)
THEOREM CrashLoopHolds == Spec => []CrashLoopIsCharged
<1>1. ChargeInv => CrashLoopIsCharged
  BY DEF ChargeInv, CrashLoopIsCharged
<1> QED
  BY <1>1, InitChargeInv, NextChargeInv, PTL DEF Spec

-----------------------------------------------------------------------------
(***************************************************************************)
(* What the steps leave alone.  Most steps of a supervisor touch neither    *)
(* the processes, nor the heartbeat, the lock or the token.                 *)
(***************************************************************************)
Aside(s) ==
    \/ TickStoodDown(s) \/ StandDown(s) \/ TickRestart(s) \/ Tick(s) \/ KillFails(s)
    \/ EnterSpawn(s) \/ TickCooled(s) \/ TickDue(s) \/ Start(s)

Shared == <<proc, beat, standdown, late>>

(* Where supervisor s goes, and which record it takes there. *)
Moves(s, l) ==
    /\ pc' = [pc EXCEPT ![s] = l]
    /\ \E m : mem' = [mem EXCEPT ![s] = m]

LEMMA AsideMoves ==
  ASSUME RecordsOK, NEW s \in Sups, Aside(s)
  PROVE  /\ UNCHANGED Shared /\ UNCHANGED <<lock, excuse>>
         /\ pc[s] # "arm"
         /\ \E l \in Outside : Moves(s, l)
<1>1. CASE TickStoodDown(s)
  <2>1. pc' = [pc EXCEPT ![s] = "idle"] /\ mem' = [mem EXCEPT ![s] = mem[s]]
    BY <1>1 DEF TickStoodDown, RecordsOK
  <2> QED
    BY <1>1, <2>1 DEF TickStoodDown, TickVars, Shared, Moves, Outside
<1>2. CASE StandDown(s)
  BY <1>2 DEF StandDown, Shared, Moves, Outside
<1>3. CASE TickRestart(s)
  BY <1>3 DEF TickRestart, TickVars, GoOn, Shared, Moves, Outside
<1>4. CASE Tick(s)
  <2>1. Moves(s, "idle")
    BY <1>4 DEF Tick, Respond, Charge, Idle, Moves
  <2>2. pc[s] # "arm"
    BY <1>4 DEF Tick
  <2> QED
    BY <1>4, <2>1, <2>2 DEF Tick, TickVars, Shared, Outside
<1>5. CASE KillFails(s)
  BY <1>5 DEF KillFails, TickVars, Idle, Shared, Moves, Outside
<1>6. CASE EnterSpawn(s)
  <2>1. Moves(s, "idle") \/ Moves(s, "claim")
    BY <1>6 DEF EnterSpawn, Settle, Idle, GoOn, Moves
  <2>2. pc[s] # "arm"
    BY <1>6 DEF EnterSpawn
  <2> QED
    BY <1>6, <2>1, <2>2 DEF EnterSpawn, SpawnVars, Shared, Outside
<1>7. CASE TickCooled(s)
  BY <1>7 DEF TickCooled, TickVars, GoOn, Shared, Moves, Outside
<1>8. CASE TickDue(s)
  <2>1. Moves(s, "spawn") \/ Moves(s, "kill")
    BY <1>8 DEF TickDue, GoOn, Moves
  <2>2. pc[s] # "arm"
    BY <1>8 DEF TickDue
  <2> QED
    BY <1>8, <2>1, <2>2 DEF TickDue, TickVars, Shared, Outside
<1>9. CASE Start(s)
  <2>1. Moves(s, "spawn") \/ Moves(s, "idle")
    BY <1>9 DEF Start, Idle, GoOn, Moves
  <2> QED
    BY <1>9, <2>1 DEF Start, TickVars, Shared, Outside
<1> QED
  BY <1>1, <1>2, <1>3, <1>4, <1>5, <1>6, <1>7, <1>8, <1>9 DEF Aside

(* A step on the lock, or a launch that fails. *)
LEMMA LockMoves ==
  ASSUME RecordsOK, NEW s \in Sups, Claim(s) \/ Steal(s) \/ DoubleCheck(s) \/ LaunchFails(s)
  PROVE  /\ UNCHANGED Shared /\ pc[s] # "arm"
         /\ \E l \in {"idle", "check", "steal", "claim", "launch"} : Moves(s, l)
<1>1. CASE Claim(s)
  <2>1. Moves(s, "idle") \/ Moves(s, "check") \/ Moves(s, "steal")
    BY <1>1 DEF Claim, Settle, Idle, GoOn, Moves
  <2> QED
    BY <1>1, <2>1 DEF Claim, SpawnVars, Shared
<1>2. CASE Steal(s)
  BY <1>2 DEF Steal, GoOn, Moves, SpawnVars, Shared
<1>3. CASE DoubleCheck(s)
  <2>1. Moves(s, "idle") \/ Moves(s, "launch")
    BY <1>3 DEF DoubleCheck, Settle, Idle, GoOn, Moves
  <2> QED
    BY <1>3, <2>1 DEF DoubleCheck, SpawnVars, Shared
<1>4. CASE LaunchFails(s)
  BY <1>4 DEF LaunchFails, Settle, Idle, Moves, SpawnVars, Shared
<1> QED
  BY <1>1, <1>2, <1>3, <1>4

(* Everybody else stays where it is. *)
LEMMA OthersStay ==
  ASSUME RecordsOK, NEW s \in Sups, NEW l, Moves(s, l)
  PROVE  /\ pc'[s] = l
         /\ \A t \in Sups \ {s} : pc'[t] = pc[t] /\ mem'[t] = mem[t]
  BY DEF Moves, RecordsOK

-----------------------------------------------------------------------------
(***************************************************************************)
(* Stand-downs.                                                             *)
(***************************************************************************)
StandInv ==
    /\ ~standdown => late = {}
    /\ StandDownHolds

(* Who looks after a process launched under the stand-down. *)
Watched(p) == \E s \in Sups : pc[s] = "arm" /\ mem[s].child = p

LEMMA StillWatched ==
  ASSUME StandInv, late' \subseteq late, standdown' = standdown,
         \A p \in late' : Watched(p) => Watched(p)'
  PROVE  StandInv'
  BY DEF StandInv, StandDownHolds, Watched

(* A supervisor that is not looking after a launch disturbs nobody who is. *)
LEMMA MoveWatched ==
  ASSUME RecordsOK, NEW s \in Sups, NEW l, Moves(s, l), pc[s] # "arm", NEW p
  PROVE  Watched(p) => Watched(p)'
  BY OthersStay DEF Watched

LEMMA StandAside ==
  ASSUME RecordsOK, StandInv, NEW s \in Sups,
         \/ Aside(s) \/ KillThenSpawn(s)
         \/ Claim(s) \/ Steal(s) \/ DoubleCheck(s) \/ LaunchFails(s)
  PROVE  StandInv'
<1>1. CASE Aside(s)
  <2>1. PICK l \in Outside : Moves(s, l)
    BY <1>1, AsideMoves
  <2> QED
    BY <1>1, <2>1, AsideMoves, MoveWatched, StillWatched DEF Shared
<1>2. CASE KillThenSpawn(s)
  <2>1. Moves(s, "spawn") /\ pc[s] # "arm"
    BY <1>2 DEF KillThenSpawn, GoOn, Moves
  <2> QED
    BY <1>2, <2>1, MoveWatched, StillWatched DEF KillThenSpawn
<1>3. CASE Claim(s) \/ Steal(s) \/ DoubleCheck(s) \/ LaunchFails(s)
  <2>1. PICK l \in {"idle", "check", "steal", "claim", "launch"} : Moves(s, l)
    BY <1>3, LockMoves
  <2> QED
    BY <1>3, <2>1, LockMoves, MoveWatched, StillWatched DEF Shared
<1> QED
  BY <1>1, <1>2, <1>3

(* The launch is looked after until its token has been looked at again.     *)
LEMMA StandLaunch ==
  ASSUME RecordsOK, StandInv, NEW s \in Sups, Launch(s)
  PROVE  StandInv'
<1>1. PICK p \in Procs :
        /\ late' = IF standdown THEN late \cup {p} ELSE late
        /\ GoOn(s, "arm", [mem[s] EXCEPT !.child = p, !.waits = FALSE])
  BY DEF Launch
<1>2. Moves(s, "arm") /\ pc[s] # "arm" /\ standdown' = standdown
  BY <1>1 DEF Launch, GoOn, Moves
<1>3. pc'[s] = "arm" /\ mem'[s].child = p
  BY <1>1 DEF GoOn, RecordsOK, SoundMemory, Memory
<1>4. \A q : Watched(q) => Watched(q)'
  BY <1>2, MoveWatched
<1>5. Watched(p)'
  BY <1>3 DEF Watched
<1> QED
  BY <1>1, <1>2, <1>4, <1>5 DEF StandInv, StandDownHolds, Watched

(* Who looked again, or died at that moment, answers for its own launch.    *)
LEMMA StandLook ==
  ASSUME RecordsOK, StandInv, NEW s \in Sups, ArmStartup(s) \/ Crash(s)
  PROVE  StandInv'
<1>1. \E l : Moves(s, l)
  BY DEF ArmStartup, Settle, Idle, Crash, Moves
<1>2. \A t \in Sups \ {s} : pc'[t] = pc[t] /\ mem'[t] = mem[t]
  BY <1>1, OthersStay
<1>3. standdown' = standdown
  BY DEF ArmStartup, Crash
<1>4. CASE late' = late \ {mem[s].child}
  <2>1. \A q \in late' : Watched(q) => Watched(q)'
    BY <1>2, <1>4 DEF Watched
  <2> QED
    BY <1>3, <1>4, <2>1, StillWatched
<1>5. CASE late' = late /\ ~standdown
  BY <1>3, <1>5 DEF StandInv, StandDownHolds
<1> QED
  BY <1>4, <1>5 DEF ArmStartup, Blocked, Crash

LEMMA NextStandInv == RecordsOK /\ StandInv /\ [Next]_vars => StandInv'
<1> SUFFICES ASSUME RecordsOK, StandInv, [Next]_vars PROVE StandInv'
  OBVIOUS
<1>0. ASSUME UNCHANGED <<pc, mem, standdown>>, late' \subseteq late PROVE StandInv'
  BY <1>0, StillWatched DEF Watched
<1>1. ASSUME NEW s \in Sups, Supervise(s) PROVE StandInv'
  BY <1>1, StandAside, StandLaunch, StandLook DEF Supervise, Spawn, Aside
<1>2. ASSUME NEW s \in Sups, TickCooled(s) \/ TickDue(s) \/ Start(s) \/ Crash(s)
      PROVE  StandInv'
  BY <1>2, StandAside, StandLook DEF Aside
<1>3. ASSUME NEW s \in Sups, Release(s) PROVE StandInv'
  BY <1>0, <1>3 DEF Release
<1>4. ASSUME NEW s \in Sups, ChildExits(s) PROVE StandInv'
  <2>1. \A t \in Sups : pc'[t] = pc[t] /\ mem'[t].child = mem[t].child
    BY <1>4 DEF ChildExits, RecordsOK, SoundMemory, Memory
  <2>2. \A p : Watched(p) => Watched(p)'
    BY <2>1 DEF Watched
  <2> QED
    BY <1>4, <2>2, StillWatched DEF ChildExits, TickVars
<1>5. ASSUME NEW p \in Procs, Beat(p) \/ Retire(p) \/ Die(p) \/ Hang(p) \/ Resume(p)
      PROVE  StandInv'
  BY <1>0, <1>5 DEF Beat, Retire, Die, Hang, Resume, ProcVars
<1>6. ASSUME LockAges \/ BeatAges \/ RequestRestart PROVE StandInv'
  BY <1>0, <1>6 DEF LockAges, BeatAges, RequestRestart
<1>7. ASSUME RequestStandDown \/ ClearStandDown PROVE StandInv'
  BY <1>7 DEF RequestStandDown, ClearStandDown, StandInv, StandDownHolds
<1>8. ASSUME UNCHANGED vars PROVE StandInv'
  BY <1>0, <1>8 DEF vars
<1> QED
  BY <1>1, <1>2, <1>3, <1>4, <1>5, <1>6, <1>7, <1>8 DEF Next

(* StandDownHolds: a process launched under a stand-down is ended, or was   *)
(* found impossible to end, before its supervisor goes on (supervisor.py,   *)
(* _spawn_locked's look at the token after the launch).                     *)
THEOREM StandDownKept == Spec => []StandDownHolds
<1>1. Init => ChargeInv /\ StandInv
  BY InitChargeInv DEF Init, StandInv, StandDownHolds
<1>2. ChargeInv /\ StandInv /\ [Next]_vars => (ChargeInv /\ StandInv)'
  BY NextChargeInv, NextStandInv DEF ChargeInv
<1>3. StandInv => StandDownHolds
  BY DEF StandInv
<1> QED
  BY <1>1, <1>2, <1>3, PTL DEF Spec

-----------------------------------------------------------------------------
(***************************************************************************)
(* Types of what the supervisors share.                                     *)
(***************************************************************************)
WorldOK ==
    /\ proc \in [Procs -> {"none", "booting", "up", "hung", "dead"}]
    /\ beat \in [pid : Procs \cup {None}, kind : {"missing", "fresh", "old", "stopped"}]
    /\ lock \in {"none", "fresh", "stale"}
    /\ standdown \in BOOLEAN /\ request \in BOOLEAN
    /\ late \subseteq Procs

SpentOK ==
    /\ spent \in [{"event", "standdown"} -> Nat]
    /\ spent["event"] <= MaxEvents /\ spent["standdown"] <= MaxStandDowns

LEMMA EventSpends ==
  ASSUME SpentOK, spent' = spent \/ Event
  PROVE  SpentOK'
<1>1. CASE Event
  <2>1. spent["event"] + 1 \in Nat /\ spent["event"] + 1 <= MaxEvents
    BY <1>1, SupervisionAssumption DEF Event, SpentOK, SupervisionAssumption
  <2> QED
    BY <1>1, <2>1 DEF Event, SpentOK
<1> QED
  BY <1>1 DEF SpentOK

LEMMA NextSpentOK == SpentOK /\ [Next]_vars => SpentOK'
<1> SUFFICES ASSUME SpentOK, [Next]_vars PROVE SpentOK'
  OBVIOUS
<1>1. ASSUME NEW s \in Sups, Supervise(s) PROVE SpentOK'
  <2>1. CASE TickStoodDown(s) \/ StandDown(s) \/ TickRestart(s) \/ KillThenSpawn(s) \/ KillFails(s)
    BY <2>1, EventSpends DEF TickStoodDown, StandDown, TickRestart, Save, Saved,
       SaveFails, Unsaved, KillThenSpawn, KillFails
  <2>2. CASE Tick(s)
    <3>1. spent' = spent \/ Event
      BY <2>2 DEF Tick, Respond, Charge, Noticed, Save, Saved, SaveFails, Unsaved
    <3> QED
      BY <3>1, EventSpends
  <2>3. CASE EnterSpawn(s) \/ Claim(s) \/ Steal(s) \/ DoubleCheck(s)
    <3>1. spent' = spent \/ Event
      BY <2>3 DEF EnterSpawn, Claim, Steal, DoubleCheck, Settle, Save, Saved, SaveFails,
         Unsaved
    <3> QED
      BY <3>1, EventSpends
  <2>4. CASE Launch(s) \/ LaunchFails(s) \/ ArmStartup(s)
    <3>1. spent' = spent \/ Event
      BY <2>4 DEF Launch, LaunchFails, ArmStartup, Settle, Save, Saved, SaveFails, Unsaved
    <3> QED
      BY <3>1, EventSpends
  <2> QED
    BY <1>1, <2>1, <2>2, <2>3, <2>4 DEF Supervise, Spawn
<1>2. ASSUME NEW s \in Sups,
             TickCooled(s) \/ Release(s) \/ ChildExits(s) \/ TickDue(s) \/ Crash(s) \/ Start(s)
      PROVE  SpentOK'
  BY <1>2, EventSpends DEF TickCooled, Save, Saved, SaveFails, Release, ChildExits,
     TickDue, Crash, Start
<1>3. ASSUME NEW p \in Procs, Beat(p) \/ Retire(p) \/ Die(p) \/ Hang(p) \/ Resume(p)
      PROVE  SpentOK'
  BY <1>3, EventSpends DEF Beat, Retire, Die, Hang, Resume
<1>4. ASSUME LockAges \/ BeatAges \/ RequestRestart \/ ClearStandDown PROVE SpentOK'
  BY <1>4, EventSpends DEF LockAges, BeatAges, RequestRestart, ClearStandDown
<1>5. ASSUME RequestStandDown PROVE SpentOK'
  <2>1. spent["standdown"] + 1 \in Nat /\ spent["standdown"] + 1 <= MaxStandDowns
    BY <1>5, SupervisionAssumption DEF RequestStandDown, SpentOK, SupervisionAssumption
  <2> QED
    BY <1>5, <2>1 DEF RequestStandDown, SpentOK
<1>6. ASSUME UNCHANGED vars PROVE SpentOK'
  BY <1>6, EventSpends DEF vars
<1> QED
  BY <1>1, <1>2, <1>3, <1>4, <1>5, <1>6 DEF Next

(* A termination ends one live process, or none. *)
LEMMA TerminateEnds ==
  ASSUME RecordsOK, WorldOK, NEW s \in Sups, NEW done, Terminate(mem[s], done)
  PROVE  \/ proc' = proc
         \/ \E p \in LiveOnes : proc' = [proc EXCEPT ![p] = "dead"]
<1>1. \A p \in Procs \cup {None} :
        p # None /\ Ended(p) => \/ proc' = proc
                                \/ p \in LiveOnes /\ proc' = [proc EXCEPT ![p] = "dead"]
  BY DEF Ended, WorldOK, LiveOnes, Live
<1>2. mem[s].child \in Procs \cup {None} /\ beat.pid \in Procs \cup {None}
  BY DEF RecordsOK, SoundMemory, Memory, WorldOK
<1>3. \/ mem[s].child # None /\ Ended(mem[s].child)
      \/ beat.pid # None /\ Ended(beat.pid)
      \/ proc' = proc
  BY DEF Terminate, Live
<1> QED
  BY <1>1, <1>2, <1>3

(* What the steps of a supervisor do to the processes. *)
LEMMA KillsOK ==
  ASSUME RecordsOK, WorldOK, NEW s \in Sups, KillThenSpawn(s) \/ ArmStartup(s)
  PROVE  /\ \/ proc' = proc
            \/ \E p \in LiveOnes : proc' = [proc EXCEPT ![p] = "dead"]
         /\ UNCHANGED <<beat, lock, standdown, request, excuse>>
         /\ \E l \in {"spawn", "idle"} : Moves(s, l)
         /\ late' \subseteq late
<1>1. CASE KillThenSpawn(s)
  BY <1>1, TerminateEnds DEF KillThenSpawn, GoOn, Moves
<1>2. CASE ArmStartup(s)
  <2>1. Moves(s, "idle") /\ late' \subseteq late
    BY <1>2 DEF ArmStartup, Settle, Idle, Moves
  <2>2. proc' = proc \/ \E done : Terminate(mem[s], done)
    BY <1>2 DEF ArmStartup
  <2> QED
    BY <1>2, <2>1, <2>2, TerminateEnds DEF ArmStartup
<1> QED
  BY <1>1, <1>2

LEMMA NextWorldOK == RecordsOK /\ WorldOK /\ [Next]_vars => WorldOK'
<1> SUFFICES ASSUME RecordsOK, WorldOK, [Next]_vars PROVE WorldOK'
  OBVIOUS
<1>0. ASSUME UNCHANGED <<proc, beat, standdown, late>>, lock' \in {lock, "none", "fresh", "stale"},
             request' \in {request, FALSE, TRUE}
      PROVE  WorldOK'
  BY <1>0 DEF WorldOK
<1>1. ASSUME NEW s \in Sups, Supervise(s) \/ TickCooled(s) \/ TickDue(s) \/ Start(s)
      PROVE  WorldOK'
  <2>1. CASE Aside(s)
    <3>1. request' \in {request, FALSE}
      BY <2>1 DEF Aside, TickStoodDown, StandDown, TickRestart, Tick, KillFails,
         EnterSpawn, SpawnVars, TickCooled, TickDue, Start
    <3> QED
      BY <1>0, <2>1, <3>1, AsideMoves DEF Shared
  <2>2. CASE Claim(s) \/ Steal(s) \/ DoubleCheck(s) \/ LaunchFails(s)
    BY <1>0, <2>2 DEF Claim, Steal, DoubleCheck, LaunchFails, SpawnVars
  <2>3. CASE KillThenSpawn(s) \/ ArmStartup(s)
    <3>1. proc' \in [Procs -> {"none", "booting", "up", "hung", "dead"}]
      BY <2>3, KillsOK DEF WorldOK
    <3> QED
      BY <2>3, <3>1, KillsOK DEF WorldOK
  <2>4. CASE Launch(s)
    <3>1. PICK p \in Procs : /\ proc' = [proc EXCEPT ![p] = "booting"]
                             /\ late' = IF standdown THEN late \cup {p} ELSE late
      BY <2>4 DEF Launch
    <3>2. proc' \in [Procs -> {"none", "booting", "up", "hung", "dead"}]
      BY <3>1 DEF WorldOK
    <3> QED
      BY <2>4, <3>1, <3>2 DEF Launch, WorldOK
  <2> QED
    BY <1>1, <2>1, <2>2, <2>3, <2>4 DEF Supervise, Spawn, Aside
<1>2. ASSUME NEW s \in Sups, Release(s) \/ ChildExits(s) PROVE WorldOK'
  BY <1>0, <1>2 DEF Release, ChildExits, TickVars
<1>3. ASSUME NEW s \in Sups, Crash(s) PROVE WorldOK'
  BY <1>3 DEF Crash, WorldOK
<1>4. ASSUME NEW p \in Procs, Beat(p) \/ Retire(p) \/ Die(p) \/ Hang(p) \/ Resume(p)
      PROVE  WorldOK'
  <2>1. proc' \in [Procs -> {"none", "booting", "up", "hung", "dead"}]
    BY <1>4 DEF Beat, Retire, Die, Hang, Resume, WorldOK
  <2>2. beat' = beat \/ beat' = [pid |-> p, kind |-> "fresh"] \/ beat' = [pid |-> p, kind |-> "stopped"]
    BY <1>4 DEF Beat, Retire, Die, Hang, Resume
  <2>3. UNCHANGED <<lock, standdown, request>> /\ late' \subseteq late
    BY <1>4 DEF Beat, Retire, Die, Hang, Resume, ProcVars
  <2>4. beat' \in [pid : Procs \cup {None}, kind : {"missing", "fresh", "old", "stopped"}]
    BY <2>2 DEF WorldOK
  <2> QED
    BY <2>1, <2>3, <2>4 DEF WorldOK
<1>5. ASSUME LockAges \/ RequestRestart PROVE WorldOK'
  BY <1>0, <1>5 DEF LockAges, RequestRestart
<1>6. ASSUME BeatAges PROVE WorldOK'
  BY <1>6 DEF BeatAges, WorldOK
<1>7. ASSUME RequestStandDown \/ ClearStandDown PROVE WorldOK'
  BY <1>7 DEF RequestStandDown, ClearStandDown, WorldOK
<1>8. ASSUME UNCHANGED vars PROVE WorldOK'
  BY <1>0, <1>8 DEF vars
<1> QED
  BY <1>1, <1>2, <1>3, <1>4, <1>5, <1>6, <1>7, <1>8 DEF Next

LEMMA InitWorldOK == Init => WorldOK
<1>1. [pid |-> None, kind |-> "missing"]
         \in [pid : Procs \cup {None}, kind : {"missing", "fresh", "old", "stopped"}]
  OBVIOUS
<1>2. [p \in Procs |-> "none"] \in [Procs -> {"none", "booting", "up", "hung", "dead"}]
  OBVIOUS
<1> QED
  BY <1>1, <1>2 DEF Init, WorldOK

(* Everything has its type: no backoff, process or failure out of range.    *)
THEOREM TypeCorrect == Spec => []PTypeOK
<1> DEFINE All == LockInv /\ ChargeInv /\ SpentOK /\ WorldOK
<1>1. Init => All
  <2>1. Init => SpentOK
    BY SupervisionAssumption DEF SupervisionAssumption, Init, SpentOK
  <2> QED
    BY <2>1, InitWorldOK, InitLockInv, InitChargeInv
<1>2. All /\ [Next]_vars => All'
  BY NextLockInv, NextChargeInv, NextSpentOK, NextWorldOK DEF ChargeInv
<1>3. All => PTypeOK
  BY DEF LockInv, ChargeInv, RecordsOK, SoundMemory, SoundDurable, SpentOK, WorldOK,
     Places, PTypeOK
<1> QED
  BY <1>1, <1>2, <1>3, PTL DEF Spec

-----------------------------------------------------------------------------
(***************************************************************************)
(* Duplicates.  While nothing excuses a second instance, there is at most   *)
(* one; and as long as the lock is free, or was just claimed, that one is   *)
(* seen running, so that no supervisor gets as far as a second launch.      *)
(***************************************************************************)
Sole ==
    /\ \A p, q \in LiveOnes : p = q
    /\ lock = "none" => ~Unseen
    /\ \A s \in Sups : /\ pc[s] = "check" => ~Unseen
                       /\ pc[s] = "launch" => LiveOnes = {}

SoleInv == excuse = "none" => Sole

AllInv == LockInv /\ RecordsOK /\ WorldOK /\ SoleInv

(* Nothing new is excused, and nobody new comes to the lock unless every    *)
(* instance is seen.                                                        *)
LEMMA SoleStays ==
  ASSUME SoleInv, LiveOnes' = LiveOnes, Unseen' = Unseen,
         excuse' = "none" => excuse = "none",
         excuse' = "none" /\ lock' = "none" => lock = "none" \/ ~Unseen,
         \A s \in Sups : /\ excuse' = "none" /\ pc'[s] = "check" => pc[s] = "check" \/ ~Unseen
                         /\ excuse' = "none" /\ pc'[s] = "launch" =>
                              pc[s] = "launch" \/ LiveOnes = {}
  PROVE  SoleInv'
  BY DEF SoleInv, Sole

(* The sole instance ends. *)
LEMMA SoleEnds ==
  ASSUME SoleInv, NEW p \in LiveOnes, LiveOnes' = LiveOnes \ {p}, excuse' = excuse
  PROVE  SoleInv'
<1> SUFFICES ASSUME excuse = "none" PROVE Sole'
  BY DEF SoleInv
<1>1. LiveOnes' = {}
  BY DEF SoleInv, Sole
<1>2. ~Unseen'
  BY <1>1 DEF Unseen
<1> QED
  BY <1>1, <1>2 DEF Sole

(* Neither the processes nor the heartbeat change. *)
LEMMA SameSight ==
  ASSUME UNCHANGED <<proc, beat>>
  PROVE  LiveOnes' = LiveOnes /\ Unseen' = Unseen
  BY DEF LiveOnes, Live, Unseen, Running

LEMMA DeadOnes ==
  ASSUME WorldOK, NEW p \in LiveOnes, proc' = [proc EXCEPT ![p] = "dead"]
  PROVE  LiveOnes' = LiveOnes \ {p}
  BY DEF WorldOK, LiveOnes, Live

LEMMA SoleAside ==
  ASSUME AllInv, NEW s \in Sups, Aside(s)
  PROVE  SoleInv'
<1>1. PICK l \in Outside : Moves(s, l)
  BY AsideMoves DEF AllInv
<1>2. UNCHANGED <<proc, beat, lock, excuse>>
  BY AsideMoves DEF AllInv, Shared
<1>3. pc'[s] \notin {"check", "launch"} /\ \A t \in Sups \ {s} : pc'[t] = pc[t]
  BY <1>1, OthersStay DEF AllInv, Outside
<1> QED
  BY <1>2, <1>3, SameSight, SoleStays DEF AllInv

LEMMA SoleLock ==
  ASSUME AllInv, NEW s \in Sups, Claim(s) \/ Steal(s) \/ DoubleCheck(s) \/ LaunchFails(s)
  PROVE  SoleInv'
<1>1. LiveOnes' = LiveOnes /\ Unseen' = Unseen
  BY LockMoves, SameSight DEF AllInv, Shared
<1>2. \A t \in Sups \ {s} : pc'[t] = pc[t]
  BY LockMoves, OthersStay DEF AllInv
<1>s. s \in Sups /\ pc \in [Sups -> Places]
  BY DEF AllInv, RecordsOK
<1>3. CASE Claim(s)
  <2>1. CASE lock = "none" /\ lock' = "fresh" /\ GoOn(s, "check", mem[s]) /\ UNCHANGED excuse
    <3>1. pc'[s] = "check"
      BY <1>s, <2>1 DEF GoOn
    <3>2. excuse = "none" => ~Unseen
      BY <2>1 DEF AllInv, SoleInv, Sole
    <3> QED
      BY <1>1, <1>2, <2>1, <3>1, <3>2, SoleStays DEF AllInv
  <2>2. CASE Settle(s, mem[s]) /\ UNCHANGED <<lock, excuse>>
    <3>1. pc'[s] = "idle"
      BY <1>s, <2>2 DEF Settle, Idle
    <3> QED
      BY <1>1, <1>2, <2>2, <3>1, SoleStays DEF AllInv
  <2>3. CASE excuse' = "stolen"
    BY <2>3 DEF SoleInv
  <2> QED
    BY <1>3, <2>1, <2>2, <2>3 DEF Claim
<1>4. CASE Steal(s)
  BY <1>4 DEF Steal, AllInv, LockInv, SoleInv
<1>5. CASE DoubleCheck(s)
  <2>1. pc'[s] \in {"idle", "launch"} /\ (pc'[s] = "launch" => ~Running) /\ pc[s] = "check"
        /\ UNCHANGED <<lock, excuse>>
    BY <1>s, <1>5 DEF DoubleCheck, Settle, Idle, GoOn
  <2>2. excuse = "none" => ~Unseen
    BY <2>1 DEF AllInv, SoleInv, Sole
  <2>3. excuse = "none" /\ pc'[s] = "launch" => LiveOnes = {}
    BY <2>1, <2>2 DEF Unseen
  <2> QED
    BY <1>1, <1>2, <2>1, <2>3, SoleStays DEF AllInv
<1>6. CASE LaunchFails(s)
  <2>1. pc'[s] = "idle" /\ UNCHANGED <<lock, excuse>>
    BY <1>s, <1>6 DEF LaunchFails, Settle, Idle
  <2> QED
    BY <1>1, <1>2, <2>1, SoleStays DEF AllInv
<1> QED
  BY <1>3, <1>4, <1>5, <1>6

(* The launch is made by the only supervisor inside the lock, when nothing  *)
(* was alive.                                                               *)
LEMMA SoleLaunch ==
  ASSUME AllInv, NEW s \in Sups, Launch(s)
  PROVE  SoleInv'
<1> SUFFICES ASSUME excuse = "none" PROVE Sole'
  BY DEF SoleInv, Launch
<1>1. Inside(s) /\ Holds(s) /\ lock # "none" /\ LiveOnes = {}
  BY DEF Launch, Inside, Holds, AllInv, LockInv, Exclusive, SoleInv, Sole
<1>2. PICK p \in Procs : proc' = [proc EXCEPT ![p] = "booting"] /\ Moves(s, "arm")
  BY DEF Launch, GoOn, Moves
<1>3. LiveOnes' \subseteq {p}
  BY <1>1, <1>2 DEF LiveOnes, Live, AllInv, WorldOK
<1>4. \A t \in Sups : pc'[t] \notin {"check", "launch"}
  <2>1. \A t \in Sups \ {s} : ~Inside(t)
    BY <1>1 DEF AllInv, LockInv, Exclusive, Holds
  <2> QED
    BY <1>2, <2>1, OthersStay DEF AllInv, Inside
<1>5. lock' # "none"
  BY <1>1 DEF Launch
<1> QED
  BY <1>3, <1>4, <1>5 DEF Sole

LEMMA SoleKill ==
  ASSUME AllInv, NEW s \in Sups, KillThenSpawn(s) \/ ArmStartup(s)
  PROVE  SoleInv'
<1>1. /\ proc' = proc \/ \E p \in LiveOnes : proc' = [proc EXCEPT ![p] = "dead"]
      /\ UNCHANGED <<beat, lock, excuse>>
      /\ \E l \in {"spawn", "idle"} : Moves(s, l)
  BY KillsOK DEF AllInv
<1>2. pc'[s] \notin {"check", "launch"} /\ \A t \in Sups \ {s} : pc'[t] = pc[t]
  BY <1>1, OthersStay DEF AllInv
<1>3. CASE proc' = proc
  BY <1>1, <1>2, <1>3, SameSight, SoleStays DEF AllInv
<1>4. CASE \E p \in LiveOnes : proc' = [proc EXCEPT ![p] = "dead"]
  BY <1>1, <1>4, DeadOnes, SoleEnds DEF AllInv
<1> QED
  BY <1>1, <1>3, <1>4

(* A heartbeat shows its process running: it is the only one, or duplicates *)
(* stay excused.                                                            *)
LEMMA SoleBeat ==
  ASSUME AllInv, NEW p \in Procs, Beat(p)
  PROVE  SoleInv'
<1> SUFFICES ASSUME excuse' = "none" PROVE Sole'
  BY DEF SoleInv
<1>1. /\ proc' = [proc EXCEPT ![p] = "up"] /\ beat' = [pid |-> p, kind |-> "fresh"]
      /\ UNCHANGED <<lock, pc>>
  BY DEF Beat, ProcVars
<1>2. p # None /\ p \in LiveOnes /\ None \notin Procs
  BY SupervisionAssumption DEF Beat, LiveOnes, Live, None, Procs, SupervisionAssumption
<1>3. LiveOnes' = LiveOnes
  BY <1>1, <1>2 DEF LiveOnes, Live, AllInv, WorldOK
<1>4. LiveOnes = {p}
  <2>1. CASE Quiet /\ LiveOnes = {p}
    BY <2>1
  <2>2. CASE excuse = "none"
    BY <1>2, <2>2 DEF AllInv, SoleInv, Sole
  <2> QED
    BY <2>1, <2>2 DEF Beat
<1>5. ~Unseen'
  <2>1. Live(p)'
    BY <1>1, <1>2 DEF Live, AllInv, WorldOK
  <2>2. Running'
    BY <1>1, <2>1 DEF Running, Live
  <2> QED
    BY <1>1, <1>3, <1>4, <2>2 DEF Unseen
<1>6. \A s \in Sups : pc[s] # "launch"
  <2>1. CASE Quiet
    BY <2>1 DEF Quiet
  <2>2. CASE excuse = "none"
    BY <1>2, <2>2 DEF AllInv, SoleInv, Sole
  <2> QED
    BY <2>1, <2>2 DEF Beat
<1> QED
  BY <1>1, <1>3, <1>4, <1>5, <1>6 DEF Sole

(* A process ends or hangs, is resumed, or is no longer seen.               *)
LEMMA SoleProcess ==
  ASSUME AllInv, NEW p \in Procs, Retire(p) \/ Die(p) \/ Hang(p) \/ Resume(p)
  PROVE  SoleInv'
<1>1. p # None
  BY SupervisionAssumption DEF None, Procs, SupervisionAssumption
<1>2. CASE Retire(p) \/ Die(p)
  <2>1. p \in LiveOnes /\ proc' = [proc EXCEPT ![p] = "dead"] /\ excuse' = excuse
    BY <1>1, <1>2 DEF Retire, Die, LiveOnes, Live
  <2> QED
    BY <2>1, DeadOnes, SoleEnds DEF AllInv
<1>3. CASE Hang(p) \/ Resume(p)
  <2>1. UNCHANGED <<beat, lock, pc, excuse>>
    BY <1>3 DEF Hang, Resume, ProcVars
  <2>2. \A q : q \in Procs => Live(q)' = Live(q)
    BY <1>3 DEF Hang, Resume, Live, AllInv, WorldOK
  <2>3. LiveOnes' = LiveOnes
    BY <2>2 DEF LiveOnes
  <2>4. Running' = Running
    <3>1. beat.pid \in Procs \cup {None}
      BY DEF AllInv, WorldOK
    <3>2. CASE beat.pid = None
      BY <2>1, <3>2 DEF Running, Live
    <3>3. CASE beat.pid \in Procs
      BY <2>1, <2>2, <3>3 DEF Running, Live
    <3> QED
      BY <3>1, <3>2, <3>3
  <2>5. Unseen' = Unseen
    BY <2>1, <2>3, <2>4 DEF Unseen
  <2> QED
    BY <2>1, <2>3, <2>5, SoleStays DEF AllInv
<1> QED
  BY <1>2, <1>3

LEMMA SoleAges ==
  ASSUME AllInv, BeatAges
  PROVE  SoleInv'
<1>1. CASE Live(beat.pid)
  BY <1>1 DEF BeatAges, Excused, SoleInv
<1>2. CASE ~Live(beat.pid)
  <2>1. UNCHANGED <<proc, lock, pc, excuse>> /\ beat'.pid = beat.pid
    BY <1>2 DEF BeatAges, AllInv, WorldOK
  <2>2. ~Running /\ ~Running'
    BY <1>2, <2>1 DEF Running, Live
  <2>3. LiveOnes' = LiveOnes
    BY <2>1 DEF LiveOnes, Live
  <2>4. Unseen' = Unseen
    BY <2>1, <2>2, <2>3 DEF Unseen
  <2> QED
    BY <2>1, <2>3, <2>4, SoleStays DEF AllInv
<1> QED
  BY <1>1, <1>2

(* The release thread gives the lock up with everything seen, or excuses.   *)
LEMMA SoleRelease ==
  ASSUME AllInv, NEW s \in Sups, Release(s)
  PROVE  SoleInv'
<1>1. LiveOnes' = LiveOnes /\ Unseen' = Unseen /\ pc' = pc
  BY SameSight DEF Release
<1>2. CASE Unseen
  BY <1>2 DEF Release, Excused, SoleInv
<1>3. CASE ~Unseen
  BY <1>1, <1>3, SoleStays DEF Release, AllInv
<1> QED
  BY <1>2, <1>3

LEMMA NextSoleInv == AllInv /\ [Next]_vars => SoleInv'
<1> SUFFICES ASSUME AllInv, [Next]_vars PROVE SoleInv'
  OBVIOUS
<1>0. ASSUME UNCHANGED <<proc, beat, excuse>>, lock' = "none" => lock = "none",
             \A s \in Sups : pc'[s] \in {pc[s], "down"}
      PROVE  SoleInv'
  BY <1>0, SameSight, SoleStays DEF AllInv
<1>1. ASSUME NEW s \in Sups, Supervise(s) \/ TickCooled(s) \/ TickDue(s) \/ Start(s)
      PROVE  SoleInv'
  BY <1>1, SoleAside, SoleLock, SoleLaunch, SoleKill DEF Supervise, Spawn, Aside
<1>2. ASSUME NEW s \in Sups, Release(s) PROVE SoleInv'
  BY <1>2, SoleRelease
<1>3. ASSUME NEW s \in Sups, ChildExits(s) PROVE SoleInv'
  BY <1>0, <1>3 DEF ChildExits, TickVars
<1>4. ASSUME NEW s \in Sups, Crash(s) PROVE SoleInv'
  <2>1. \A t \in Sups : pc'[t] \in {pc[t], "down"}
    BY <1>4 DEF Crash, AllInv, RecordsOK
  <2> QED
    BY <1>0, <1>4, <2>1 DEF Crash
<1>5. ASSUME NEW p \in Procs, Beat(p) \/ Retire(p) \/ Die(p) \/ Hang(p) \/ Resume(p)
      PROVE  SoleInv'
  BY <1>5, SoleBeat, SoleProcess
<1>6. ASSUME LockAges \/ RequestRestart \/ RequestStandDown \/ ClearStandDown PROVE SoleInv'
  BY <1>0, <1>6 DEF LockAges, RequestRestart, RequestStandDown, ClearStandDown
<1>7. ASSUME BeatAges PROVE SoleInv'
  BY <1>7, SoleAges
<1>8. ASSUME UNCHANGED vars PROVE SoleInv'
  BY <1>0, <1>8 DEF vars
<1> QED
  BY <1>1, <1>2, <1>3, <1>4, <1>5, <1>6, <1>7, <1>8 DEF Next

(* DuplicatesAreExplained: a second instance is alive only after a lock was *)
(* stolen, was released while an instance was not seen, or an instance that *)
(* lives had stopped beating (supervisor.py, _spawn_locked and              *)
(* _release_when_up).                                                       *)
THEOREM DuplicatesHold == Spec => []DuplicatesAreExplained
<1> DEFINE All == LockInv /\ ChargeInv /\ WorldOK /\ SoleInv
<1>1. Init => All
  <2> SUFFICES ASSUME Init PROVE All
    OBVIOUS
  <2>1. WorldOK
    BY InitWorldOK
  <2>2. LiveOnes = {}
    BY DEF Init, LiveOnes, Live
  <2>3. SoleInv
    BY <2>2 DEF Init, SoleInv, Sole, Unseen
  <2> QED
    BY <2>1, <2>3, InitLockInv, InitChargeInv
<1>2. All /\ [Next]_vars => All'
  BY NextLockInv, NextChargeInv, NextWorldOK, NextSoleInv DEF ChargeInv, AllInv
<1>3. All => DuplicatesAreExplained
  <2> SUFFICES ASSUME \A p, q \in LiveOnes : p = q PROVE ~(Cardinality(LiveOnes) > 1)
    BY DEF SoleInv, Sole, DuplicatesAreExplained, LockInv
  <2>1. CASE LiveOnes = {}
    BY <2>1, FS_EmptySet
  <2>2. CASE LiveOnes # {}
    <3>1. PICK p \in LiveOnes : TRUE
      BY <2>2
    <3>2. LiveOnes = {p}
      BY <3>1
    <3>3. Cardinality({p}) = 1
      BY FS_Singleton
    <3> QED
      BY <3>2, <3>3
  <2> QED
    BY <2>1, <2>2
<1> QED
  BY <1>1, <1>2, <1>3, PTL DEF Spec
=============================================================================
