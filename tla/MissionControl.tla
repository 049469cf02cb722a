---------------------------- MODULE MissionControl ----------------------------
(***************************************************************************)
(* The control plane of pirate: the mission list and the environment that  *)
(* the HTTP handlers of ui/ui.c keep, the ping monitor that                *)
(* monitor/monitor.c starts and stops for them, the life of the ping       *)
(* thread (monitor/ping.c, monitor/ping_common.c) and the life of the      *)
(* process, which both threads can end.                                    *)
(*                                                                         *)
(* Two threads take steps.  The server thread runs one handler at a time   *)
(* (mongoose's event loop calls them all); the /runner handler is split in *)
(* two, so that the ping thread and signals can act between the change of  *)
(* the mission list and the call of monitor_ctrl.  The ping thread runs    *)
(* ping_main, which never returns: every way out of it is an exit().       *)
(***************************************************************************)
EXTENDS Naturals, Sequences

CONSTANTS
  MissionTypes,   (* MISSION_TYPE, the test kinds a mission can have        *)
  Addresses,      (* host and target strings a client may post              *)
  NoAddress,      (* the empty string, what memset leaves in ENV            *)
  MaxMissions     (* bound of the model on the length of mission_list       *)

ASSUME ControlAssumption ==
  /\ NoAddress \notin Addresses
  /\ MaxMissions \in Nat

VARIABLES
  missions,       (* mission_list: [type, status] records, head first       *)
  env,            (* ENV: host, target1, target2                            *)
  cmd,            (* the COMMAND that /runner is executing, or NoCommand    *)
  reply,          (* the last reply: "none", "OK" or "error"                *)
  ping,           (* phase of the ping thread                               *)
  pingTarget,     (* the address the ping thread was given                  *)
  created,        (* how many ping threads were created so far (history)    *)
  sigint,         (* disposition of SIGINT: "default" or "sigexit"          *)
  pending,        (* SIGINT sent to the ping thread and not yet taken       *)
  exiting,        (* ping_common.c's flag, set by sigexit                   *)
  stopSent,       (* stop_ping has sent its signal (history)                *)
  proc            (* "up", or how the process ended                         *)

server == <<missions, env, cmd, reply>>
monitor == <<ping, pingTarget, created, sigint, pending, exiting, stopSent>>
vars == <<missions, env, cmd, reply, ping, pingTarget, created, sigint,
          pending, exiting, stopSent, proc>>

Statuses == {"STOPPED", "RUNNING"}
Orders == {"START", "PAUSE", "RESUME", "STOP", "OTHER"}

(* command_control: the orders it turns into mission_ctl(type, true) and   *)
(* M_START, and those it turns into mission_ctl(type, false) and M_STOP.   *)
StartOrders == {"START", "RESUME"}
StopOrders == {"PAUSE", "STOP"}

Missions == [type : MissionTypes, status : Statuses]
Strings == Addresses \cup {NoAddress}
Envs == [host : Strings, target1 : Strings, target2 : Strings]
Commands == [order : Orders \ {"OTHER"}, m_type : MissionTypes]
NoCommand == [order |-> "none"]

Up == proc = "up"
Idle == Up /\ cmd = NoCommand
-------------------------------------------------------------------------------
(* main.c, Init: an empty list, a zeroed ENV, no handler for SIGINT yet.   *)
Init ==
  /\ missions = <<>>
  /\ env = [host |-> NoAddress, target1 |-> NoAddress, target2 |-> NoAddress]
  /\ cmd = NoCommand
  /\ reply = "none"
  /\ ping = "none"
  /\ pingTarget = NoAddress
  /\ created = 0
  /\ sigint = "default"
  /\ pending = FALSE
  /\ exiting = FALSE
  /\ stopSent = FALSE
  /\ proc = "up"
-------------------------------------------------------------------------------
(***************************************************************************)
(* The mission list.                                                       *)
(***************************************************************************)

(* Entry i of ms is the one a walk from the head meets first for type t.   *)
IsFirst(ms, i, t) ==
  /\ ms[i].type = t
  /\ \A j \in 1 .. (i - 1) : ms[j].type # t

(* Some entry of ms has type t: the search of parse_runner.                *)
Found(ms, t) == \E i \in DOMAIN ms : ms[i].type = t

(* Mutant: a start marks every entry of the type, the break is missing.    *)
mission_ctl_all(ms, t, status) ==
  [i \in DOMAIN ms |->
     IF ms[i].type = t /\ (status = "RUNNING" \/ IsFirst(ms, i, t))
       THEN [ms[i] EXCEPT !.status = status] ELSE ms[i]]

(* Mutant: PAUSE and STOP write PAUSED, a status nothing handles.          *)
mission_ctl_paused(ms, t, status) ==
  [i \in DOMAIN ms |->
     IF IsFirst(ms, i, t)
       THEN [ms[i] EXCEPT !.status = IF status = "RUNNING" THEN status ELSE "PAUSED"]
       ELSE ms[i]]

(* Mutant: go is not looked at.                                            *)
mission_ctl_off(ms, t, status) ==
  [i \in DOMAIN ms |->
     IF IsFirst(ms, i, t) THEN [ms[i] EXCEPT !.status = "STOPPED"] ELSE ms[i]]

(* mission_ctl: the first entry of the type gets the status (RUNNING when  *)
(* go is true, STOPPED when not), and the walk leaves the loop there.      *)
mission_ctl(ms, t, status) ==
  [i \in DOMAIN ms |->
     IF IsFirst(ms, i, t) THEN [ms[i] EXCEPT !.status = status] ELSE ms[i]]

(* Mutant: the count is never made.                                        *)
check_mission_queue_none(ms) == FALSE

(* check_mission_queue() > 0 *)
check_mission_queue(ms) == \E i \in DOMAIN ms : ms[i].status = "RUNNING"

(* Mutant: the zeroing memset is missing and the status is whatever it is. *)
new_mission_unset(t) == [type |-> t, status |-> "RUNNING"]

(* The record parse_mission allocates, zeroes (STOPPED is 0) and fills.    *)
new_mission(t) == [type |-> t, status |-> "STOPPED"]

(* POST /mission.  A body without mission-type is refused; any other adds  *)
(* an entry at the tail, also when the type is already listed.             *)
parse_mission ==
  /\ Idle
  /\ \/ \E t \in MissionTypes :
          /\ Len(missions) < MaxMissions
          /\ missions' = Append(missions, new_mission(t))
          /\ reply' = "OK"
     \/ /\ reply' = "error"
        /\ UNCHANGED missions
  /\ UNCHANGED <<env, cmd, proc>> /\ UNCHANGED monitor

(* POST /env.  The host is copied before the targets are looked at, so it  *)
(* stays when the post is refused for having neither of them.              *)
parse_env ==
  /\ Idle
  /\ \E h \in Strings :
       \/ /\ env' = [env EXCEPT !.host = h]
          /\ reply' = "error"
       \/ \E t1 \in Strings, t2 \in Strings, given \in SUBSET {1, 2} :
            /\ given # {}
            /\ env' = [host |-> h,
                       target1 |-> IF 1 \in given THEN t1 ELSE env.target1,
                       target2 |-> IF 2 \in given THEN t2 ELSE env.target2]
            /\ reply' = "OK"
  /\ UNCHANGED <<missions, cmd, proc>> /\ UNCHANGED monitor

(* POST /runner up to the return of mission_ctl: a type that is not listed *)
(* is refused, any other order is given to command_control.                *)
parse_runner ==
  /\ Idle
  /\ \E o \in Orders, t \in MissionTypes :
       \/ /\ ~Found(missions, t)
          /\ reply' = "error"
          /\ UNCHANGED <<missions, cmd>>
       \/ /\ Found(missions, t)
          /\ \/ /\ o \in StartOrders
                /\ missions' = mission_ctl(missions, t, "RUNNING")
             \/ /\ o \in StopOrders
                /\ missions' = mission_ctl(missions, t, "STOPPED")
          /\ cmd' = [order |-> o, m_type |-> t]
          /\ UNCHANGED reply
       \/ /\ Found(missions, t)
          /\ o = "OTHER"
          /\ reply' = "OK"
          /\ UNCHANGED <<missions, cmd>>
  /\ UNCHANGED <<env, proc>> /\ UNCHANGED monitor

(* Requests that change nothing: no body, no Origin header (no reply at    *)
(* all), /scan, whose handler returns an undefined value.                  *)
idle_request ==
  /\ Idle
  /\ reply' \in {"none", "OK", "error"}
  /\ UNCHANGED <<missions, env, cmd, proc>> /\ UNCHANGED monitor

(* A request the handlers do not check: a body that is not JSON, no host   *)
(* in /env, no order or no type in /runner (all a NULL that is followed),  *)
(* or no body at all, after which an uninitialized origin is sent.  Each   *)
(* happens before the handler has changed anything.                        *)
bad_request ==
  /\ Idle
  /\ proc' = "segv"
  /\ UNCHANGED server /\ UNCHANGED monitor

(* A /setup frame with setup_type INIT.  push_mission adds every entry to  *)
(* a NULL object, which cJSON dereferences; with an empty list it replies. *)
push_mission ==
  /\ Idle
  /\ proc' = IF missions = <<>> THEN "up" ELSE "segv"
  /\ UNCHANGED server /\ UNCHANGED monitor
-------------------------------------------------------------------------------
(***************************************************************************)
(* The monitor.                                                            *)
(***************************************************************************)

(* Mutant: a thread that was told to stop is taken for a finished one.     *)
check_monitor_running_flag == ping # "none" /\ ~stopSent

(* A thread was created (ping_tid # 0) and pthread_kill(ping_tid, 0) finds *)
(* it: the thread lives as long as the process.                            *)
check_monitor_running == ping # "none"

(* command_control's START and RESUME: monitor_ctrl(M_START, M_PING) with  *)
(* start_ping.  start_ping returns no value, but command_control's result  *)
(* is not looked at, so the reply is OK either way.  pthread_create, whose *)
(* result nobody looks at, is taken to succeed.                            *)
monitor_start ==
  /\ Up
  /\ cmd.order \in StartOrders
  /\ \/ /\ check_monitor_running
        /\ UNCHANGED monitor
     \/ /\ ~check_monitor_running
        /\ ping' = "starting"
        /\ pingTarget' = env.target1
        /\ created' = created + 1
        /\ UNCHANGED <<sigint, pending, exiting, stopSent>>
  /\ cmd' = NoCommand
  /\ reply' = "OK"
  /\ UNCHANGED <<missions, env, proc>>

(* command_control's PAUSE and STOP: monitor_ctrl(M_STOP, M_PING) with     *)
(* stop_ping, which sends SIGINT to the ping thread and does not wait.     *)
monitor_stop ==
  /\ Up
  /\ cmd.order \in StopOrders
  /\ \/ /\ check_monitor_running
        /\ ~check_mission_queue(missions)
        /\ pending' = TRUE
        /\ stopSent' = TRUE
        /\ UNCHANGED <<ping, pingTarget, created, sigint, exiting>>
     \/ /\ ~check_monitor_running \/ check_mission_queue(missions)
        /\ UNCHANGED monitor
  /\ cmd' = NoCommand
  /\ reply' = "OK"
  /\ UNCHANGED <<missions, env, proc>>
-------------------------------------------------------------------------------
(***************************************************************************)
(* The ping thread.                                                        *)
(***************************************************************************)

(* ping_main up to the end of setup: the target resolves, the sockets      *)
(* open, and the handlers of SIGINT and SIGALRM are installed.             *)
ping_setup ==
  /\ Up /\ ping = "starting"
  /\ pingTarget # NoAddress
  /\ ping' = "top"
  /\ sigint' = "sigexit"
  /\ UNCHANGED <<pingTarget, created, pending, exiting, stopSent, proc>>
  /\ UNCHANGED server

(* Any exit(2) of ping_main up to the socket: an unknown host (the empty   *)
(* string is one), no raw socket, no route.  It ends the whole process.    *)
ping_main_fails ==
  /\ Up /\ ping = "starting"
  /\ proc' = "exited"
  /\ UNCHANGED server /\ UNCHANGED monitor

(* Any exit(2) after that: a socket option, no memory for the packet.      *)
ping_options_fail ==
  /\ Up /\ ping = "starting"
  /\ pingTarget # NoAddress
  /\ proc' = "exited"
  /\ UNCHANGED server /\ UNCHANGED monitor

(* Mutant: the turn begins without a look at exiting.                      *)
main_loop_turn_always ==
  /\ Up /\ ping = "top"
  /\ ping' = "receiving"
  /\ UNCHANGED <<pingTarget, created, sigint, pending, exiting, stopSent, proc>>
  /\ UNCHANGED server

(* One turn of main_loop: exiting is looked at, then the thread sends and  *)
(* waits for answers, at most a second.                                    *)
main_loop_turn ==
  /\ Up /\ ping = "top"
  /\ ~exiting
  /\ ping' = "receiving"
  /\ UNCHANGED <<pingTarget, created, sigint, pending, exiting, stopSent, proc>>
  /\ UNCHANGED server

(* A reply or an error is reported: pr_addr asks the resolver for a name   *)
(* (in_pr_addr is 1 meanwhile) unless the thread is told to exit.          *)
pr_addr_enter ==
  /\ Up /\ ping = "receiving"
  /\ ~exiting
  /\ ping' = "pr_addr"
  /\ UNCHANGED <<pingTarget, created, sigint, pending, exiting, stopSent, proc>>
  /\ UNCHANGED server

pr_addr_return ==
  /\ Up /\ ping = "pr_addr"
  /\ ping' = "receiving"
  /\ UNCHANGED <<pingTarget, created, sigint, pending, exiting, stopSent, proc>>
  /\ UNCHANGED server

(* The receive loop ends: nothing queued or nothing in flight.             *)
recv_done ==
  /\ Up /\ ping = "receiving"
  /\ ping' = "top"
  /\ UNCHANGED <<pingTarget, created, sigint, pending, exiting, stopSent, proc>>
  /\ UNCHANGED server

(* main_loop leaves at its first check and finish() calls exit().          *)
finish ==
  /\ Up /\ ping = "top"
  /\ exiting
  /\ proc' = "exited"
  /\ UNCHANGED server /\ UNCHANGED monitor

(* The ping thread takes the SIGINT of stop_ping: the default action kills *)
(* the process, sigexit sets exiting and jumps out of pr_addr.             *)
sigexit ==
  /\ Up /\ pending
  /\ pending' = FALSE
  /\ \/ /\ sigint = "default"
        /\ proc' = "killed"
        /\ UNCHANGED <<ping, exiting>>
     \/ /\ sigint = "sigexit"
        /\ exiting' = TRUE
        /\ ping' = IF ping = "pr_addr" THEN "receiving" ELSE ping
        /\ UNCHANGED proc
  /\ UNCHANGED <<pingTarget, created, sigint, stopSent>> /\ UNCHANGED server

(* Ctrl-C at the terminal: a SIGINT for the process, taken by either       *)
(* thread.  When the server thread takes it while the ping thread is in    *)
(* pr_addr, sigexit jumps into a frame of another thread's stack.          *)
interrupt ==
  /\ Up
  /\ \/ /\ sigint = "default"
        /\ proc' = "killed"
        /\ UNCHANGED <<ping, exiting>>
     \/ /\ sigint = "sigexit"
        /\ exiting' = TRUE
        /\ ping' = IF ping = "pr_addr" THEN "receiving" ELSE ping
        /\ UNCHANGED proc
     \/ /\ sigint = "sigexit" /\ ping = "pr_addr"
        /\ proc' = "segv"
        /\ UNCHANGED <<ping, exiting>>
  /\ UNCHANGED <<pingTarget, created, sigint, pending, stopSent>>
  /\ UNCHANGED server

(* A process that has ended does nothing more.                             *)
terminated == ~Up /\ UNCHANGED vars
-------------------------------------------------------------------------------
ServerNext ==
  \/ parse_mission \/ parse_env \/ parse_runner \/ idle_request
  \/ bad_request \/ push_mission \/ monitor_start \/ monitor_stop

PingNext ==
  \/ ping_setup \/ ping_main_fails \/ ping_options_fail
  \/ main_loop_turn \/ pr_addr_enter \/ pr_addr_return \/ recv_done \/ finish \/ sigexit

Next == ServerNext \/ PingNext \/ interrupt \/ terminated

Spec == Init /\ [][Next]_vars

(* A handler that has begun is run to its end; the ping thread is          *)
(* scheduled, its set-up and its resolver calls end, a signal sent to it   *)
(* is delivered, and the receive loop leaves whenever its queue runs dry,  *)
(* which strong fairness says happens again and again.                     *)
Fairness ==
  /\ WF_vars(monitor_start \/ monitor_stop)
  /\ WF_vars(ping_setup \/ ping_main_fails \/ ping_options_fail)
  /\ WF_vars(main_loop_turn \/ finish)
  /\ WF_vars(pr_addr_return)
  /\ SF_vars(recv_done)
  /\ WF_vars(sigexit)

FairSpec == Spec /\ Fairness
-------------------------------------------------------------------------------
(***************************************************************************)
(* What the mission list and the monitor are for, without the list.        *)
(***************************************************************************)

(* The types that some entry, and that some RUNNING entry, has.            *)
ListedTypes == {missions[i].type : i \in DOMAIN missions}

RunningTypes ==
  {missions[i].type : i \in {k \in DOMAIN missions : missions[k].status = "RUNNING"}}

Registry == INSTANCE MissionRegistry WITH
  listed <- ListedTypes, running <- RunningTypes,
  watched <- (ping # "none"), dismissed <- stopSent, alive <- Up

(* The list of entries, with its duplicates and its walks from the head,   *)
(* behaves as one set of listed and one set of running types; the monitor  *)
(* is started only while a mission runs and dismissed only while none does.*)
ImplementsRegistry == Registry!Spec
-------------------------------------------------------------------------------
(***************************************************************************)
(* Properties.                                                             *)
(***************************************************************************)

(* Every variable holds a value of its type; of the five MISSION_STATUS    *)
(* values only STOPPED and RUNNING ever occur in the list.                 *)
TypeOK ==
  /\ missions \in Seq(Missions)
  /\ env \in Envs
  /\ cmd \in Commands \cup {NoCommand}
  /\ reply \in {"none", "OK", "error"}
  /\ ping \in {"none", "starting", "top", "receiving", "pr_addr"}
  /\ pingTarget \in Strings
  /\ created \in Nat
  /\ sigint \in {"default", "sigexit"}
  /\ pending \in BOOLEAN
  /\ exiting \in BOOLEAN
  /\ stopSent \in BOOLEAN
  /\ proc \in {"up", "exited", "killed", "segv"}

(* Although /mission adds duplicates, only the entry that mission_ctl      *)
(* reaches can be RUNNING, so a STOP of a type reaches every running       *)
(* mission of it.                                                          *)
OnlyFirstOfTypeRuns ==
  \A i, j \in DOMAIN missions :
    i < j /\ missions[i].type = missions[j].type => missions[j].status = "STOPPED"

(* What an OK to /runner means when it is sent: after START or RESUME the  *)
(* mission runs and there is a ping thread, after PAUSE or STOP no mission *)
(* of the type runs, whatever was posted or signalled meanwhile.           *)
RunnerAnswered ==
  [][cmd # NoCommand /\ cmd' = NoCommand =>
       IF cmd.order \in StartOrders
         THEN cmd.m_type \in RunningTypes' /\ ping' # "none"
         ELSE cmd.m_type \notin RunningTypes']_vars

(* No mission runs unwatched: between two requests a RUNNING mission       *)
(* implies that a ping thread was started.                                 *)
RunningIsMonitored == Idle /\ RunningTypes # {} => ping # "none"

(* ping_common.c keeps its state in globals and is not reentrant: however  *)
(* often missions are started and stopped, one ping thread at most is ever *)
(* created.                                                                *)
SinglePing == created = IF ping = "none" THEN 0 ELSE 1

(* A SIGINT sent to the ping thread, or taken by sigexit from the          *)
(* terminal, ends the process: the flag is not lost in the receive loop or *)
(* in the resolver ("Hit Ctrl-C to terminate the program", ui.c:488).      *)
SignalEndsProcess == pending \/ exiting ~> ~Up

(* Stopping the monitor ends the monitor: monitor.c:81 logs "ping monitor  *)
(* thread [%d] exit.", and the server goes on.                             *)
StopKeepsServer == [][stopSent /\ exiting /\ PingNext => Up']_vars

(* A client that sends INIT is sent the mission list: ui.c:452, "push      *)
(* mission list to new client"; the handler ends and the server goes on.   *)
InitAnswered == [][push_mission => proc' = "up"]_vars
===============================================================================
