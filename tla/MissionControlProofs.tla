------------------------- MODULE MissionControlProofs -------------------------
(***************************************************************************)
(* The safety properties of MissionControl for every set of mission types  *)
(* and of addresses and every bound on the list, and the proof that it     *)
(* implements MissionRegistry.                                             *)
(***************************************************************************)
EXTENDS MissionControl, WellFoundedInduction, TLAPS

(* The types of the RUNNING entries of a list, RunningTypes for any list.  *)
RunningOf(ms) ==
  {ms[i].type : i \in {k \in DOMAIN ms : ms[k].status = "RUNNING"}}

(* The types of the entries of a list, ListedTypes for any list.           *)
ListedOf(ms) == {ms[i].type : i \in DOMAIN ms}

(* OnlyFirstOfTypeRuns for any list.                                       *)
FirstRuns(ms) ==
  \A i, j \in DOMAIN ms :
    i < j /\ ms[i].type = ms[j].type => ms[j].status = "STOPPED"

(* Until monitor_ctrl is called a started mission may still be unwatched.  *)
MonitoredInv ==
  RunningTypes # {} => ping # "none" \/ cmd.order \in StartOrders

(* The command in progress has already changed the list.                   *)
CommandInv ==
  cmd # NoCommand =>
    IF cmd.order \in StartOrders THEN cmd.m_type \in RunningTypes
                                 ELSE cmd.m_type \notin RunningTypes

(* The inductive invariant.                                                *)
IInv ==
  TypeOK /\ OnlyFirstOfTypeRuns /\ MonitoredInv /\ CommandInv /\ SinglePing

USE DEF StartOrders, StopOrders

-------------------------------------------------------------------------------
(* A nonempty set of naturals has a least element.                         *)
LEMMA LeastNatural ==
  ASSUME NEW T \in SUBSET Nat, T # {}
  PROVE  \E x \in T : \A y \in T : x <= y
<1> DEFINE R == OpToRel(<, Nat)
<1>1. IsWellFoundedOn(R, Nat)
  BY NatLessThanWellFounded
<1>2. \A x, y \in Nat : <<y, x>> \notin R => x <= y
  BY DEF OpToRel
<1> HIDE DEF R
<1>3. PICK x \in T : \A y \in T : ~ (<<y, x>> \in R)
  BY <1>1, WFMin
<1>4. \A y \in T : x <= y
  BY <1>2, <1>3
<1>5. QED
  BY <1>4

(* The walk of mission_ctl reaches an entry of every listed type.          *)
LEMMA FirstExists ==
  ASSUME NEW ms \in Seq(Missions), NEW t, Found(ms, t)
  PROVE  \E i \in DOMAIN ms : IsFirst(ms, i, t)
<1> DEFINE T == {i \in DOMAIN ms : ms[i].type = t}
<1>1. T \in SUBSET Nat /\ T # {}
  BY DEF Found
<1>2. PICK x \in T : \A y \in T : x <= y
  BY <1>1, LeastNatural
<1>3. \A j \in 1 .. (x - 1) : ms[j].type # t
  BY <1>2
<1>4. QED
  BY <1>2, <1>3 DEF IsFirst

(* mission_ctl changes no length, no type and no second entry of a type.   *)
LEMMA ControlKeepsList ==
  ASSUME NEW ms \in Seq(Missions), NEW t \in MissionTypes, NEW st \in Statuses
  PROVE  LET new == mission_ctl(ms, t, st) IN
         /\ new \in Seq(Missions)
         /\ DOMAIN new = DOMAIN ms
         /\ \A i \in DOMAIN ms : new[i].type = ms[i].type
         /\ \A i \in DOMAIN ms : IsFirst(ms, i, t) => new[i].status = st
         /\ \A i \in DOMAIN ms : ~IsFirst(ms, i, t) => new[i] = ms[i]
<1> DEFINE new == mission_ctl(ms, t, st)
<1>1. \A i \in DOMAIN ms :
        new[i] = IF IsFirst(ms, i, t) THEN [ms[i] EXCEPT !.status = st] ELSE ms[i]
  BY DEF mission_ctl
<1>2. DOMAIN new = 1 .. Len(ms) /\ Len(ms) \in Nat
  BY DEF mission_ctl
<1>3. \A m \in Missions : /\ [m EXCEPT !.status = st] \in Missions
                          /\ [m EXCEPT !.status = st].type = m.type
                          /\ [m EXCEPT !.status = st].status = st
  BY DEF Missions
<1>4. ASSUME NEW i \in DOMAIN ms
      PROVE  /\ new[i] \in Missions
             /\ new[i].type = ms[i].type
             /\ IsFirst(ms, i, t) => new[i].status = st
             /\ ~IsFirst(ms, i, t) => new[i] = ms[i]
  <2>1. ms[i] \in Missions
    OBVIOUS
  <2>2. CASE IsFirst(ms, i, t)
    <3>1. new[i] = [ms[i] EXCEPT !.status = st]
      BY <1>1, <2>2
    <3>2. QED
      BY <1>3, <2>1, <2>2, <3>1
  <2>3. CASE ~IsFirst(ms, i, t)
    <3>1. new[i] = ms[i]
      BY <1>1, <2>3
    <3>2. QED
      BY <2>1, <2>3, <3>1
  <2>4. QED
    BY <2>2, <2>3
<1>5. new \in [1 .. Len(ms) -> Missions]
  BY <1>2, <1>4 DEF mission_ctl
<1>6. new \in Seq(Missions)
  BY <1>2, <1>5
<1>7. DOMAIN new = DOMAIN ms
  BY DEF mission_ctl
<1>8. QED
  BY <1>4, <1>6, <1>7

(* Two entries of one type are not both the first.                         *)
LEMMA FirstIsUnique ==
  ASSUME NEW ms \in Seq(Missions), NEW t,
         NEW i \in DOMAIN ms, NEW j \in DOMAIN ms,
         IsFirst(ms, i, t), ms[j].type = t
  PROVE  i <= j /\ (i # j => ~IsFirst(ms, j, t))
BY DEF IsFirst

(* START and RESUME add the type to the running ones and nothing else.     *)
LEMMA StartRuns ==
  ASSUME NEW ms \in Seq(Missions), NEW t \in MissionTypes,
         Found(ms, t), FirstRuns(ms)
  PROVE  /\ RunningOf(mission_ctl(ms, t, "RUNNING")) = RunningOf(ms) \cup {t}
         /\ FirstRuns(mission_ctl(ms, t, "RUNNING"))
<1> DEFINE new == mission_ctl(ms, t, "RUNNING")
<1>1. /\ DOMAIN new = DOMAIN ms
      /\ \A i \in DOMAIN ms : new[i].type = ms[i].type
      /\ \A i \in DOMAIN ms : IsFirst(ms, i, t) => new[i].status = "RUNNING"
      /\ \A i \in DOMAIN ms : ~IsFirst(ms, i, t) => new[i] = ms[i]
  BY ControlKeepsList DEF Statuses
<1>2. PICK f \in DOMAIN ms : IsFirst(ms, f, t)
  BY FirstExists
<1>3. \A i \in DOMAIN ms : IsFirst(ms, i, t) => ms[i].type = t
  BY DEF IsFirst
<1> HIDE DEF new
<1>4. RunningOf(new) = RunningOf(ms) \cup {t}
  BY <1>1, <1>2, <1>3 DEF RunningOf
<1>5. FirstRuns(new)
  BY <1>1, <1>2, <1>3, FirstIsUnique DEF FirstRuns, IsFirst
<1>6. QED
  BY <1>4, <1>5 DEF new

(* PAUSE and STOP remove the type from the running ones, because no entry  *)
(* behind the first of its type runs.                                      *)
LEMMA StopStops ==
  ASSUME NEW ms \in Seq(Missions), NEW t \in MissionTypes,
         Found(ms, t), FirstRuns(ms)
  PROVE  /\ RunningOf(mission_ctl(ms, t, "STOPPED")) = RunningOf(ms) \ {t}
         /\ FirstRuns(mission_ctl(ms, t, "STOPPED"))
<1> DEFINE new == mission_ctl(ms, t, "STOPPED")
<1>1. /\ DOMAIN new = DOMAIN ms
      /\ \A i \in DOMAIN ms : new[i].type = ms[i].type
      /\ \A i \in DOMAIN ms : IsFirst(ms, i, t) => new[i].status = "STOPPED"
      /\ \A i \in DOMAIN ms : ~IsFirst(ms, i, t) => new[i] = ms[i]
  BY ControlKeepsList DEF Statuses
<1>2. PICK f \in DOMAIN ms : IsFirst(ms, f, t)
  BY FirstExists
<1>3. \A i \in DOMAIN ms : IsFirst(ms, i, t) => ms[i].type = t
  BY DEF IsFirst
<1> HIDE DEF new
<1>4. \A i \in DOMAIN ms : ms[i].type = t => new[i].status = "STOPPED"
  <2>1. SUFFICES ASSUME NEW i \in DOMAIN ms, ms[i].type = t
                 PROVE  new[i].status = "STOPPED"
    OBVIOUS
  <2>2. CASE i = f
    BY <1>1, <1>2, <2>2
  <2>3. CASE i # f
    <3>1. f < i /\ ~IsFirst(ms, i, t)
      BY <1>2, <2>1, <2>3, FirstIsUnique
    <3>2. ms[i].status = "STOPPED"
      BY <1>2, <1>3, <2>1, <3>1 DEF FirstRuns
    <3>3. QED
      BY <1>1, <3>1, <3>2
  <2>4. QED
    BY <2>2, <2>3
<1>5. RunningOf(new) = RunningOf(ms) \ {t}
  BY <1>1, <1>3, <1>4 DEF RunningOf
<1>6. FirstRuns(new)
  BY <1>1, <1>4 DEF FirstRuns
<1>7. QED
  BY <1>5, <1>6 DEF new

(* A new mission changes neither the running types nor what runs.          *)
LEMMA PostKeepsRunning ==
  ASSUME NEW ms \in Seq(Missions), NEW t \in MissionTypes, FirstRuns(ms)
  PROVE  LET new == Append(ms, new_mission(t)) IN
         /\ new \in Seq(Missions)
         /\ RunningOf(new) = RunningOf(ms)
         /\ FirstRuns(new)
<1> DEFINE new == Append(ms, new_mission(t))
<1>1. new_mission(t) \in Missions /\ new_mission(t).status = "STOPPED"
  BY DEF new_mission, Missions, Statuses
<1>2. new \in Seq(Missions)
  BY <1>1
<1>3. /\ DOMAIN new = 1 .. (Len(ms) + 1) /\ DOMAIN ms = 1 .. Len(ms)
      /\ Len(ms) \in Nat
      /\ \A i \in DOMAIN ms : new[i] = ms[i]
      /\ new[Len(ms) + 1].status = "STOPPED"
  BY <1>1
<1> HIDE DEF new
<1>4. RunningOf(new) = RunningOf(ms)
  BY <1>3 DEF RunningOf
<1>5. FirstRuns(new)
  BY <1>3 DEF FirstRuns
<1>6. QED
  BY <1>2, <1>4, <1>5 DEF new

-------------------------------------------------------------------------------
(* RunningTypes and OnlyFirstOfTypeRuns speak of the list alone.           *)
LEMMA ListFacts ==
  /\ RunningTypes = RunningOf(missions) /\ RunningTypes' = RunningOf(missions')
  /\ OnlyFirstOfTypeRuns <=> FirstRuns(missions)
  /\ OnlyFirstOfTypeRuns' <=> FirstRuns(missions')
BY DEF RunningTypes, RunningOf, OnlyFirstOfTypeRuns, FirstRuns

(* The inductive invariant holds after Init.                               *)
LEMMA InitHolds == Init => IInv
<1> SUFFICES ASSUME Init PROVE IInv
  OBVIOUS
<1>1. missions = <<>> /\ DOMAIN missions = {}
  BY DEF Init
<1>2. RunningTypes = {} /\ OnlyFirstOfTypeRuns
  BY <1>1 DEF RunningTypes, OnlyFirstOfTypeRuns
<1>3. env \in Envs
  BY DEF Init, Envs, Strings
<1>4. TypeOK
  <2>1. missions \in Seq(Missions)
    BY <1>1
  <2>2. pending \in BOOLEAN /\ exiting \in BOOLEAN /\ stopSent \in BOOLEAN
    BY DEF Init
  <2>3. QED
    BY <1>3, <2>1, <2>2 DEF Init, TypeOK, Strings
<1>5. QED
  BY <1>2, <1>4 DEF Init, IInv, MonitoredInv, CommandInv, SinglePing

(* The /runner handler: the list and the command change together.          *)
LEMMA RunnerStep ==
  ASSUME IInv, parse_runner
  PROVE  IInv'
<1> USE DEF IInv
<1>1. PICK o \in Orders, t \in MissionTypes :
        \/ /\ ~Found(missions, t)
           /\ reply' = "error"
           /\ UNCHANGED <<missions, cmd>>
        \/ /\ Found(missions, t)
           /\ \/ /\ o \in StartOrders
                 /\ missions' = mission_ctl(missions, t, "RUNNING")
              \/ /\ o \in StopOrders
                 /\ missions' = mission_ctl(missions, t, "STOPPED")
           /\ cmd' = [order |-> o, m_type |-> t]
           /\ UNCHANGED reply
        \/ /\ Found(missions, t)
           /\ o = "OTHER"
           /\ reply' = "OK"
           /\ UNCHANGED <<missions, cmd>>
  BY DEF parse_runner
<1>2. /\ Idle /\ UNCHANGED <<env, ping, pingTarget, created, sigint, pending,
                             exiting, stopSent, proc>>
  BY DEF parse_runner, monitor
<1>3. CASE UNCHANGED <<missions, cmd>>
  <2>1. reply' \in {"none", "OK", "error"}
    BY <1>1, <1>3 DEF TypeOK
  <2>2. QED
    BY <1>2, <1>3, <2>1, ListFacts
       DEF TypeOK, MonitoredInv, CommandInv, SinglePing
<1>4. CASE /\ Found(missions, t) /\ o \in StartOrders
           /\ missions' = mission_ctl(missions, t, "RUNNING")
           /\ cmd' = [order |-> o, m_type |-> t] /\ UNCHANGED reply
  <2>1. missions' \in Seq(Missions)
    BY <1>4, ControlKeepsList DEF TypeOK, Statuses
  <2>2. RunningTypes' = RunningTypes \cup {t} /\ OnlyFirstOfTypeRuns'
    BY <1>4, StartRuns, ListFacts DEF TypeOK
  <2>3. cmd' \in Commands /\ cmd'.order \in StartOrders /\ cmd'.m_type = t
    BY <1>4 DEF Commands, StartOrders, Orders
  <2>4. QED
    BY <1>2, <1>4, <2>1, <2>2, <2>3 DEF TypeOK, MonitoredInv, CommandInv, SinglePing
<1>5. CASE /\ Found(missions, t) /\ o \in StopOrders
           /\ missions' = mission_ctl(missions, t, "STOPPED")
           /\ cmd' = [order |-> o, m_type |-> t] /\ UNCHANGED reply
  <2>1. missions' \in Seq(Missions)
    BY <1>5, ControlKeepsList DEF TypeOK, Statuses
  <2>2. RunningTypes' = RunningTypes \ {t} /\ OnlyFirstOfTypeRuns'
    BY <1>5, StopStops, ListFacts DEF TypeOK
  <2>3. cmd' \in Commands /\ cmd'.order \notin StartOrders /\ cmd'.m_type = t
    BY <1>5 DEF Commands, StartOrders, Orders
  <2>4. cmd.order \notin StartOrders
    BY <1>2 DEF Idle, NoCommand, StartOrders
  <2>5. QED
    BY <1>2, <1>5, <2>1, <2>2, <2>3, <2>4
       DEF TypeOK, MonitoredInv, CommandInv, SinglePing
<1>6. QED
  BY <1>1, <1>3, <1>4, <1>5

(* monitor_ctrl: the ping thread is created, signalled or left alone.      *)
LEMMA MonitorStep ==
  ASSUME IInv, monitor_start \/ monitor_stop
  PROVE  IInv'
<1>1. /\ UNCHANGED <<missions, env, proc>> /\ cmd' = NoCommand /\ reply' = "OK"
      /\ TypeOK /\ MonitoredInv /\ SinglePing /\ OnlyFirstOfTypeRuns
  BY DEF IInv, monitor_start, monitor_stop
<1>2. RunningTypes' = RunningTypes /\ OnlyFirstOfTypeRuns'
  BY <1>1, ListFacts
<1>3. CASE monitor_start
  <2>1. ping' # "none" /\ SinglePing'
    BY <1>1, <1>3 DEF monitor_start, check_monitor_running, monitor, SinglePing, TypeOK
  <2>2. TypeOK'
    BY <1>1, <1>3 DEF monitor_start, monitor, TypeOK, Envs
  <2>3. QED
    BY <1>1, <1>2, <2>1, <2>2 DEF IInv, MonitoredInv, CommandInv
<1>4. CASE monitor_stop
  <2>1. cmd.order \notin StartOrders
    BY <1>4 DEF monitor_stop, StartOrders
  <2>2. /\ UNCHANGED <<ping, pingTarget, created, sigint, exiting>>
        /\ pending' \in BOOLEAN /\ stopSent' \in BOOLEAN
    BY <1>1, <1>4 DEF monitor_stop, monitor, TypeOK
  <2>3. TypeOK' /\ SinglePing'
    BY <1>1, <2>2 DEF TypeOK, SinglePing
  <2>4. QED
    BY <1>1, <1>2, <2>1, <2>2, <2>3 DEF IInv, MonitoredInv, CommandInv
<1>5. QED
  BY <1>3, <1>4

(* Every step keeps the inductive invariant.                               *)
LEMMA StepHolds == IInv /\ [Next]_vars => IInv'
<1> SUFFICES ASSUME IInv, [Next]_vars PROVE IInv'
  OBVIOUS
<1>0. TypeOK /\ OnlyFirstOfTypeRuns /\ MonitoredInv /\ CommandInv /\ SinglePing
  BY DEF IInv
<1>1. CASE parse_mission
  <2>1. /\ cmd = NoCommand
        /\ UNCHANGED <<env, cmd, ping, pingTarget, created, sigint, pending,
                       exiting, stopSent, proc>>
    BY <1>1 DEF parse_mission, Idle, monitor
  <2>2. reply' \in {"none", "OK", "error"}
    BY <1>1 DEF parse_mission
  <2>3. /\ missions' \in Seq(Missions)
        /\ RunningTypes' = RunningTypes /\ OnlyFirstOfTypeRuns'
    BY <1>0, <1>1, PostKeepsRunning, ListFacts DEF parse_mission, TypeOK
  <2>4. QED
    BY <1>0, <2>1, <2>2, <2>3 DEF IInv, TypeOK, MonitoredInv, CommandInv, SinglePing
<1>2. CASE parse_env
  <2>1. /\ UNCHANGED <<missions, cmd, ping, pingTarget, created, sigint, pending,
                       exiting, stopSent, proc>>
        /\ reply' \in {"none", "OK", "error"}
    BY <1>2 DEF parse_env, monitor
  <2>2. env' \in Envs
    BY <1>0, <1>2 DEF parse_env, TypeOK, Envs
  <2>3. QED
    BY <1>0, <2>1, <2>2, ListFacts
       DEF IInv, TypeOK, MonitoredInv, CommandInv, SinglePing
<1>3. CASE parse_runner
  BY <1>3, RunnerStep
<1>4. CASE idle_request
  BY <1>0, <1>4, ListFacts
     DEF idle_request, monitor, IInv, TypeOK, MonitoredInv, CommandInv, SinglePing
<1>5. CASE push_mission \/ bad_request
  BY <1>0, <1>5, ListFacts
     DEF push_mission, bad_request, server, monitor, IInv, TypeOK, MonitoredInv, CommandInv, SinglePing
<1>6. CASE monitor_start \/ monitor_stop
  BY <1>6, MonitorStep
<1>7. CASE PingNext \/ interrupt
  <2>1. /\ UNCHANGED <<missions, env, cmd, reply>>
        /\ UNCHANGED <<pingTarget, created, stopSent>>
    BY <1>7 DEF PingNext, interrupt, server, monitor, ping_setup, ping_main_fails, ping_options_fail,
         main_loop_turn, pr_addr_enter, pr_addr_return, recv_done, finish, sigexit
  <2>2. /\ ping' \in {"none", "starting", "top", "receiving", "pr_addr"}
        /\ ping' = "none" <=> ping = "none"
    BY <1>0, <1>7 DEF PingNext, interrupt, monitor, ping_setup, ping_main_fails, ping_options_fail,
         main_loop_turn, pr_addr_enter, pr_addr_return, recv_done, finish, sigexit,
         TypeOK
  <2>3. /\ sigint' \in {"default", "sigexit"}
        /\ proc' \in {"up", "exited", "killed", "segv"}
    BY <1>0, <1>7 DEF PingNext, interrupt, monitor, ping_setup, ping_main_fails, ping_options_fail,
         main_loop_turn, pr_addr_enter, pr_addr_return, recv_done, finish, sigexit,
         TypeOK
  <2>4. pending' \in BOOLEAN /\ exiting' \in BOOLEAN
    BY <1>0, <1>7 DEF PingNext, interrupt, monitor, ping_setup, ping_main_fails, ping_options_fail,
         main_loop_turn, pr_addr_enter, pr_addr_return, recv_done, finish, sigexit,
         TypeOK
  <2>5. QED
    BY <1>0, <2>1, <2>2, <2>3, <2>4, ListFacts
       DEF IInv, TypeOK, MonitoredInv, CommandInv, SinglePing
<1>8. CASE UNCHANGED vars
  BY <1>0, <1>8, ListFacts
     DEF vars, IInv, TypeOK, MonitoredInv, CommandInv, SinglePing
<1>9. QED
  BY <1>1, <1>2, <1>3, <1>4, <1>5, <1>6, <1>7, <1>8 DEF Next, ServerNext, terminated

-------------------------------------------------------------------------------
(* The inductive invariant holds in every reachable state.                 *)
THEOREM Invariance == Spec => []IInv
BY InitHolds, StepHolds, PTL DEF Spec

(* Every variable keeps its type, and no mission is ever PAUSED, ERROR or  *)
(* END in the list.                                                        *)
THEOREM TypeCorrect == Spec => []TypeOK
<1>1. IInv => TypeOK
  BY DEF IInv
<1>2. QED
  BY <1>1, Invariance, PTL

(* However many missions of one type the clients post, only the entry that *)
(* mission_ctl reaches can run.                                            *)
THEOREM OnlyFirstRuns == Spec => []OnlyFirstOfTypeRuns
<1>1. IInv => OnlyFirstOfTypeRuns
  BY DEF IInv
<1>2. QED
  BY <1>1, Invariance, PTL

(* Between two requests no mission runs without a ping thread.             *)
THEOREM MissionsAreMonitored == Spec => []RunningIsMonitored
<1>1. IInv => RunningIsMonitored
  BY DEF IInv, RunningIsMonitored, MonitoredInv, Idle, NoCommand, StartOrders
<1>2. QED
  BY <1>1, Invariance, PTL

(* At most one ping thread is created in the life of a process.            *)
THEOREM OnePingThread == Spec => []SinglePing
<1>1. IInv => SinglePing
  BY DEF IInv
<1>2. QED
  BY <1>1, Invariance, PTL

(* An OK of /runner tells the truth about the missions of the type.        *)
THEOREM RunnerAnswersTruly == Spec => RunnerAnswered
<1> DEFINE Truth ==
      cmd # NoCommand /\ cmd' = NoCommand =>
        IF cmd.order \in StartOrders
          THEN cmd.m_type \in RunningTypes' /\ ping' # "none"
          ELSE cmd.m_type \notin RunningTypes'
<1>1. IInv /\ [Next]_vars => [Truth]_vars
  <2> SUFFICES ASSUME IInv, Next, cmd # NoCommand, cmd' = NoCommand
               PROVE  Truth
    OBVIOUS
  <2>1. monitor_start \/ monitor_stop
    BY DEF Next, ServerNext, PingNext, parse_mission, parse_env, parse_runner,
         idle_request, bad_request, push_mission, interrupt, terminated, vars, server, Idle,
         ping_setup, ping_main_fails, ping_options_fail, main_loop_turn, pr_addr_enter,
         pr_addr_return, recv_done, finish, sigexit
  <2>2. RunningTypes' = RunningTypes
    BY <2>1, ListFacts DEF monitor_start, monitor_stop
  <2>3. CommandInv
    BY DEF IInv
  <2>4. CASE monitor_start
    <3>1. ping' # "none" /\ cmd.order \in StartOrders
      BY <2>4 DEF monitor_start, check_monitor_running, monitor
    <3>2. QED
      BY <2>2, <2>3, <3>1 DEF CommandInv, StartOrders
  <2>5. CASE monitor_stop
    <3>1. cmd.order \notin StartOrders
      BY <2>5 DEF monitor_stop
    <3>2. QED
      BY <2>2, <2>3, <3>1 DEF CommandInv, StartOrders
  <2>6. QED
    BY <2>1, <2>4, <2>5
<1>2. QED
  BY <1>1, Invariance, PTL DEF Spec, RunnerAnswered

-------------------------------------------------------------------------------
(* mission_ctl and parse_mission seen through ListedTypes.                 *)
LEMMA ListedFacts ==
  /\ ListedTypes = ListedOf(missions) /\ ListedTypes' = ListedOf(missions')
  /\ \A t : Found(missions, t) => t \in ListedTypes
BY DEF ListedTypes, ListedOf, Found

(* mission_ctl lists nothing and unlists nothing.                          *)
LEMMA ListedAfterControl ==
  ASSUME NEW ms \in Seq(Missions), NEW t \in MissionTypes, NEW st \in Statuses
  PROVE  ListedOf(mission_ctl(ms, t, st)) = ListedOf(ms)
BY ControlKeepsList DEF ListedOf

(* parse_mission lists the type of the new entry.                          *)
LEMMA ListedAfterPost ==
  ASSUME NEW ms \in Seq(Missions), NEW t \in MissionTypes
  PROVE  ListedOf(Append(ms, new_mission(t))) = ListedOf(ms) \cup {t}
<1> DEFINE new == Append(ms, new_mission(t))
<1>1. /\ DOMAIN new = 1 .. (Len(ms) + 1) /\ DOMAIN ms = 1 .. Len(ms)
      /\ Len(ms) \in Nat
      /\ \A i \in DOMAIN ms : new[i] = ms[i]
      /\ new[Len(ms) + 1].type = t
  BY DEF new_mission
<1> HIDE DEF new
<1>2. ListedOf(new) = ListedOf(ms) \cup {t}
  BY <1>1 DEF ListedOf
<1>3. QED
  BY <1>2 DEF new

(* Every step of MissionControl is a step of MissionRegistry or changes    *)
(* nothing of what it sees.                                                *)
LEMMA RegistryStep == IInv /\ [Next]_vars => [Registry!Next]_(Registry!vars)
<1> SUFFICES ASSUME IInv, [Next]_vars PROVE [Registry!Next]_(Registry!vars)
  OBVIOUS
<1>0. TypeOK /\ OnlyFirstOfTypeRuns /\ CommandInv /\ missions \in Seq(Missions)
  BY DEF IInv, TypeOK
<1>1. missions' = missions => ListedTypes' = ListedTypes /\ RunningTypes' = RunningTypes
  BY ListFacts DEF ListedTypes
<1>2. CASE UNCHANGED <<missions, ping, stopSent, proc>>
  BY <1>1, <1>2 DEF Registry!vars, Up
<1>3. ASSUME NEW t \in MissionTypes, Up, UNCHANGED <<ping, stopSent, proc>>,
             missions' = Append(missions, new_mission(t))
      PROVE  Registry!Next
  <2>1. ListedTypes' = ListedTypes \cup {t}
    BY <1>0, <1>3, ListedAfterPost, ListedFacts
  <2>2. RunningTypes' = RunningTypes
    BY <1>0, <1>3, PostKeepsRunning, ListFacts
  <2>3. QED
    BY <1>3, <2>1, <2>2 DEF Registry!Next, Registry!Post, Up
<1>4. ASSUME NEW t \in MissionTypes, Up, UNCHANGED <<ping, stopSent, proc>>,
             Found(missions, t), missions' = mission_ctl(missions, t, "RUNNING")
      PROVE  Registry!Next
  <2>1. ListedTypes' = ListedTypes /\ t \in ListedTypes
    BY <1>0, <1>4, ListedAfterControl, ListedFacts DEF Statuses
  <2>2. RunningTypes' = RunningTypes \cup {t}
    BY <1>0, <1>4, StartRuns, ListFacts
  <2>3. QED
    BY <1>4, <2>1, <2>2 DEF Registry!Next, Registry!Start, Up
<1>5. ASSUME NEW t \in MissionTypes, Up, UNCHANGED <<ping, stopSent, proc>>,
             Found(missions, t), missions' = mission_ctl(missions, t, "STOPPED")
      PROVE  Registry!Next
  <2>1. ListedTypes' = ListedTypes /\ t \in ListedTypes
    BY <1>0, <1>5, ListedAfterControl, ListedFacts DEF Statuses
  <2>2. RunningTypes' = RunningTypes \ {t}
    BY <1>0, <1>5, StopStops, ListFacts
  <2>3. QED
    BY <1>5, <2>1, <2>2 DEF Registry!Next, Registry!Stop, Up
<1>6. CASE monitor_start
  <2>1. UNCHANGED <<missions, stopSent, proc>> /\ Up
    BY <1>6 DEF monitor_start, monitor
  <2>2. RunningTypes # {}
    BY <1>0, <1>6 DEF monitor_start, CommandInv, NoCommand, StartOrders
  <2>3. CASE ping # "none" /\ ping' = ping
    BY <1>2, <2>1, <2>3
  <2>4. CASE ping = "none" /\ ping' = "starting"
    BY <1>1, <2>1, <2>2, <2>4 DEF Registry!Next, Registry!Watch, Up
  <2>5. QED
    BY <1>6, <2>3, <2>4 DEF monitor_start, check_monitor_running, monitor
<1>7. CASE monitor_stop
  <2>1. UNCHANGED <<missions, ping, proc>> /\ Up
    BY <1>7 DEF monitor_stop, monitor
  <2>2. CASE stopSent' = stopSent
    BY <1>2, <2>1, <2>2
  <2>3. CASE ping # "none" /\ ~check_mission_queue(missions) /\ stopSent' = TRUE
    <3>1. RunningTypes = {}
      BY <2>3 DEF check_mission_queue, RunningTypes
    <3>2. QED
      BY <1>1, <2>1, <2>3, <3>1 DEF Registry!Next, Registry!Dismiss, Up
  <2>4. QED
    BY <1>7, <2>2, <2>3 DEF monitor_stop, check_monitor_running, monitor
<1>8. CASE PingNext \/ interrupt \/ push_mission \/ bad_request
  <2>1. /\ UNCHANGED <<missions, stopSent>> /\ Up
        /\ (ping' = "none" <=> ping = "none")
    BY <1>0, <1>8 DEF PingNext, interrupt, push_mission, bad_request, Idle, server, monitor,
         ping_setup, ping_main_fails, ping_options_fail, main_loop_turn, pr_addr_enter,
         pr_addr_return, recv_done, finish, sigexit, TypeOK
  <2>2. QED
    BY <1>1, <2>1 DEF Registry!Next, Registry!Die, Registry!vars, Up
<1>9. CASE parse_mission \/ parse_env \/ parse_runner \/ idle_request
  BY <1>2, <1>3, <1>4, <1>5, <1>9
     DEF parse_mission, parse_env, parse_runner, idle_request, Idle, monitor
<1>10. CASE UNCHANGED vars
  BY <1>2, <1>10 DEF vars
<1>11. QED
  BY <1>6, <1>7, <1>8, <1>9, <1>10 DEF Next, ServerNext, terminated

(* The list, with its duplicates and its walks, implements the registry.   *)
THEOREM RegistryRefined == Spec => ImplementsRegistry
<1>1. Init => Registry!Init
  BY DEF Init, Registry!Init, ListedTypes, RunningTypes, Up
<1>2. QED
  BY <1>1, Invariance, RegistryStep, PTL DEF Spec, ImplementsRegistry, Registry!Spec

===============================================================================
