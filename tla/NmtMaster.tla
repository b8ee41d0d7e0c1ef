----------------------------- MODULE NmtMaster -----------------------------
(***************************************************************************)
(* The NMT master of the Lely stack (co/nmt.c, co/nmt_hb.c) and the slaves *)
(* it starts: the startup procedure of CiA 302-2 with its 'boot slave'     *)
(* services (NmtBoot), the heartbeat consumers, the reaction to a lost     *)
(* slave, and the NMT commands of the application, which the port passes   *)
(* to co_nmt_cs_req. All of it runs on one thread: a step is one callback  *)
(* (frame, timer, request completion) or one command, calls and re-entrant *)
(* state changes included.                                                 *)
(*                                                                         *)
(* m is the master: its NMT state st, reset (the startup procedure is      *)
(* active), halt, the slaves' boot verdicts, the boots under way and the   *)
(* heartbeat consumers. m.out and m.auto record what the last step sent    *)
(* and whether it took the master to operational without being told;       *)
(* m.crashed is undefined behaviour: a failed assertion, or a boot that is *)
(* destroyed twice; nothing is said of what follows. Node guarding, the    *)
(* inhibit time of NMT commands, LSS, the restoring of a slave's defaults  *)
(* (1F8A) and a manual configuration of a slave are left out.              *)
(***************************************************************************)
EXTENDS NmtBoot, FiniteSets, SequencesExt

CONSTANTS NumNodes,     \* node-IDs 1..NumNodes of the slaves
          Configs       \* object dictionaries: [startup, slave], see NmtBoot, with
                        \* the bounds of their behaviours: MaxCommands of the
                        \* application, MaxFaults (power losses, late heartbeats)

Nodes  == 1..NumNodes
All    == 0                 \* the broadcast address
Master == NumNodes + 1      \* the master's own node-ID

VARIABLES m, cfg, node, ec, commands, faults
vars == <<m, cfg, node, ec, commands, faults>>

AssignBits  == {"listed", "boot", "mandatory", "keep", "chksw", "update"}
StartupBits == {"all", "manual", "nostart", "resetAll", "stopAll"}
Objects     == {"cfgdate", "sw_id", "program", "stored"}

ASSUME NmtAssumption ==
  /\ {NumNodes, SDO_RETRY} \subseteq Nat
  /\ \A c \in Configs : /\ {c.MaxCommands, c.MaxFaults} \subseteq Nat
                        /\ c.startup \subseteq StartupBits
                        /\ \A n \in Nodes : /\ c.slave[n].assign \subseteq AssignBits
                                            /\ c.slave[n].heartbeat \in BOOLEAN
                                            /\ c.slave[n].od \subseteq Objects

Listed(n)    == "listed" \in cfg.slave[n].assign
Mandatory(n) == {"listed", "mandatory"} \subseteq cfg.slave[n].assign
Keep(n)      == {"listed", "keep"} \subseteq cfg.slave[n].assign
MayStart(n)  == {"listed", "boot"} \subseteq cfg.slave[n].assign
Good(es)     == es \in {"0", "L"}

NoSlave == [booted |-> FALSE, es |-> "0", est |-> "none"]

(***************************************************************************)
(* Heartbeat consumers.                                                    *)
(***************************************************************************)
(* Fault: the consumer is resolved, but its timer is not started.        *)
HbSetStNoTimer(hb) == IF hb.on THEN [hb EXCEPT !.state = "resolved"] ELSE hb

co_nmt_hb_set_1016(ms) == [on |-> ms, timer |-> FALSE, state |-> "resolved"]
co_nmt_hb_set_st(hb) == IF hb.on THEN [hb EXCEPT !.timer = TRUE, !.state = "resolved"] ELSE hb

co_nmt_hb_init == [n \in Nodes |-> co_nmt_hb_set_1016(cfg.slave[n].heartbeat)]

(***************************************************************************)
(* NMT commands. Sending one updates the state the master expects of the   *)
(* slaves it knows the state of.                                           *)
(***************************************************************************)
CommandState(cs) ==
  CASE cs = "start" -> "op" [] cs = "stop" -> "stopped" [] cs = "preop" -> "preop"
    [] cs \in {"reset_node", "reset_comm"} -> "none"

SendAs(s, cs, t, by) ==
  [s EXCEPT !.out = Append(@, [cs |-> cs, to |-> t, by |-> by]),
            !.slave = [n \in Nodes |->
               IF t \in {All, n} /\ @[n].est # "none" THEN [@[n] EXCEPT !.est = CommandState(cs)]
                                                      ELSE @[n]]]
co_nmt_cs_req(s, cs, t) == SendAs(s, cs, t, "master")

(* The command is sent to each node of S, in the order of the node-IDs.     *)
SendEach(s, cs, S) ==
  LET sent[k \in 0..NumNodes] ==
        IF k = 0 THEN s ELSE IF k \in S THEN co_nmt_cs_req(sent[k - 1], cs, k) ELSE sent[k - 1]
  IN  sent[NumNodes]

(***************************************************************************)
(* The operational state, and the decision to enter it without a command.  *)
(***************************************************************************)
(* Fault: every slave whose boot has ended is started, the failed ones too. *)
StartOnEnterAnyBooted(s) ==
  SendEach([s EXCEPT !.st = "start"], "start",
           {n \in Nodes : /\ "all" \in cfg.startup /\ "nostart" \notin cfg.startup
                          /\ MayStart(n) /\ s.slave[n].booted})

co_nmt_start_on_enter(s) ==
  LET e     == [s EXCEPT !.st = "start"]
      Ok(n) == e.slave[n].booted /\ Good(e.slave[n].es)
      each  == {n \in Nodes : MayStart(n) /\ Ok(n) /\ e.slave[n].est # "op"}
  IN  CASE "all" \notin cfg.startup \/ "nostart" \in cfg.startup -> e
        [] OTHER ->
             IF \A n \in Nodes : Listed(n) => Ok(n) /\ "boot" \notin cfg.slave[n].assign
             THEN co_nmt_cs_req(e, "start", All)
             ELSE SendEach(e, "start", each)

co_nmt_startup_slave(s) ==
  LET r == [s EXCEPT !.reset = FALSE]
  IN  CASE ~s.reset -> s
        [] s.reset /\ "manual" \in cfg.startup -> r
        [] OTHER -> [co_nmt_start_on_enter(r) EXCEPT !.auto = TRUE]

(***************************************************************************)
(* The end of a boot, as the pre-operational master sees it, and a request *)
(* to boot, which may end at once.                                         *)
(***************************************************************************)
(* Fault: the failure of a mandatory slave is forgotten.                    *)
PreopOnBootNoHalt(s, id) ==
  IF \E n \in Nodes : Mandatory(n) /\ s.boot[n] # NoBoot THEN s ELSE co_nmt_startup_slave(s)

co_nmt_preop_on_boot(s, id) ==
  LET h == [s EXCEPT !.halt = @ \/ (Mandatory(id) /\ ~Good(s.slave[id].es))]
  IN  IF h.halt \/ \E n \in Nodes : Mandatory(n) /\ h.boot[n] # NoBoot
      THEN h ELSE co_nmt_startup_slave(h)

co_nmt_boot_con(s, id, b) ==
  LET est     == IF b.st = "none" /\ Good(b.es) THEN "preop" ELSE b.st
      ended   == [s EXCEPT !.slave[id] = [booted |-> TRUE, es |-> b.es, est |-> est],
                           !.boot[id] = NoBoot,
                           !.hb[id] = co_nmt_hb_set_1016(cfg.slave[id].heartbeat)]
      begun   == IF /\ b.es = "0" /\ MayStart(id) /\ "nostart" \notin cfg.startup
                    /\ "all" \notin cfg.startup \/ s.st = "start"
                 THEN co_nmt_cs_req(ended, "start", id) ELSE ended
      watched == IF Good(b.es) THEN [begun EXCEPT !.hb[id] = co_nmt_hb_set_st(@)] ELSE begun
  IN  IF s.st = "preop" THEN co_nmt_preop_on_boot(watched, id) ELSE watched

(* The successor b of the boot of slave id: under way, or confirmed.        *)
Settle(s, id, b) ==
  IF b.state = "done" THEN co_nmt_boot_con(s, id, b) ELSE [s EXCEPT !.boot[id] = b]

co_nmt_boot_req(s, id) ==
  IF s.boot[id] # NoBoot THEN s
  ELSE Settle([s EXCEPT !.hb[id] = co_nmt_hb_set_1016(FALSE)], id,
              co_nmt_boot_wait_on_time(co_nmt_boot_create, cfg.slave[id]))

(***************************************************************************)
(* Entering pre-operational: forget the slaves, reset those that are not   *)
(* to be kept alive, and boot the mandatory ones and the ones kept alive.  *)
(***************************************************************************)
co_nmt_slaves_boot(s) ==
  LET booted[k \in 0..NumNodes] ==
        IF k = 0 THEN s
        ELSE IF Mandatory(k) \/ Keep(k) THEN co_nmt_boot_req(booted[k - 1], k) ELSE booted[k - 1]
  IN  booted[NumNodes]

co_nmt_startup_master(s) ==
  LET kept   == {n \in Nodes : Keep(n)}
      reset  == IF kept = {} THEN co_nmt_cs_req(s, "reset_comm", All)
                ELSE SendEach(s, "reset_comm", Nodes \ kept)
      booted == co_nmt_slaves_boot(reset)
  IN  IF \E n \in Nodes : Mandatory(n) THEN booted ELSE co_nmt_startup_slave(booted)

(* co_nmt_slaves_fini destroys the boots under way. The client of a boot is *)
(* destroyed with it and first confirms its request as aborted; when that   *)
(* ends the boot, co_nmt_boot_con destroys it a second time (or, in a reset *)
(* state, fails its assertion), and when it begins a configuration, or one  *)
(* is under way, destroying that confirms it to the boot that is no more.   *)
DestroyedTwice(b, c) ==
  LET r == CASE b.pend = "up" -> co_nmt_boot_up_con(b, c, "abort")
             [] b.pend = "dn" -> co_nmt_boot_dn_con(b, c, "abort")
             [] OTHER -> b
  IN  r.state = "done" \/ r.pend = "cfg"

co_nmt_slaves_init(s) ==
  [s EXCEPT !.slave = [n \in Nodes |-> NoSlave], !.boot = [n \in Nodes |-> NoBoot],
            !.crashed = @ \/ \E n \in Nodes : DestroyedTwice(s.boot[n], cfg.slave[n])]

co_nmt_preop_on_enter(s) ==
  co_nmt_startup_master([co_nmt_slaves_init(s) EXCEPT !.halt = FALSE, !.st = "preop"])

co_nmt_reset_comm_on_enter(s) ==
  co_nmt_preop_on_enter([s EXCEPT !.reset = TRUE, !.hb = co_nmt_hb_init])

co_nmt_cs_ind(s, cs) ==
  CASE cs = "reset_node" \/ (cs = "reset_comm" /\ s.st # "init") -> co_nmt_reset_comm_on_enter(s)
    [] cs = "start" /\ s.st \in {"preop", "stop"} -> co_nmt_start_on_enter(s)
    [] cs = "stop" /\ s.st \in {"preop", "start"} -> [s EXCEPT !.st = "stop"]
    [] cs = "preop" /\ s.st \in {"start", "stop"} -> co_nmt_preop_on_enter(s)
    [] OTHER -> s

co_nmt_node_err_ind(s, id) ==
  CASE ~Listed(id) -> s
    [] Mandatory(id) /\ "stopAll" \in cfg.startup ->
         co_nmt_cs_ind(co_nmt_cs_req(s, "stop", All), "stop")
    [] Mandatory(id) /\ {"stopAll", "resetAll"} \cap cfg.startup = {"resetAll"} ->
         co_nmt_cs_ind(co_nmt_cs_req(s, "reset_node", All), "reset_node")
    [] OTHER -> co_nmt_cs_req(s, "reset_node", id)

(***************************************************************************)
(* The slaves: powered off, starting (init), or in an NMT state. They obey *)
(* a command when it is sent; what they send waits in ec, one frame each.  *)
(***************************************************************************)
Obey(st, cs) ==
  CASE st = "off" -> "off"
    [] st # "off" /\ cs \in {"reset_node", "reset_comm"} -> "init"
    [] st = "init" /\ cs \notin {"reset_node", "reset_comm"} -> "init"
    [] OTHER -> CommandState(cs)

Alive(n) == node[n] \in {"preop", "op", "stopped"}

(* One callback or command: s is the master after it.                       *)
Idle == [m EXCEPT !.out = <<>>, !.auto = FALSE]
Step(s) ==
  /\ ~m.crashed
  /\ m' = s
  /\ node' = [n \in Nodes |->
        FoldLeft(LAMBDA st, f : IF f.to \in {All, n} THEN Obey(st, f.cs) ELSE st, node[n], s.out)]
  /\ UNCHANGED cfg

Init ==
  /\ cfg \in Configs
  /\ m = [st |-> "init", reset |-> FALSE, halt |-> FALSE, auto |-> FALSE, out |-> <<>>,
          crashed |-> FALSE, hb |-> [n \in Nodes |-> co_nmt_hb_set_1016(FALSE)],
          slave |-> [n \in Nodes |-> NoSlave], boot |-> [n \in Nodes |-> NoBoot]]
  /\ node \in [Nodes -> {"off", "preop", "op"}]
  /\ ec = [n \in Nodes |-> "none"]
  /\ commands = 0 /\ faults = 0

(* The port resets the master when its runtime starts.                      *)
Startup ==
  /\ m.st = "init"
  /\ Step(co_nmt_cs_ind(Idle, "reset_node"))
  /\ UNCHANGED <<ec, commands, faults>>

Command(cs, t) ==
  /\ m.st # "init" /\ commands < cfg.MaxCommands
  /\ commands' = commands + 1
  /\ Step(IF t = Master THEN co_nmt_cs_ind(Idle, cs) ELSE SendAs(Idle, cs, t, "user"))
  /\ UNCHANGED <<ec, faults>>

(* co_nmt_recv_700 comes first: it takes a boot-up message, and leaves any  *)
(* other frame to the boot service or to the heartbeat consumer.            *)
Received(n, f) ==
  LET b == m.boot[n]
  IN  CASE m.st = "init" -> Idle
        [] m.st # "init" /\ f = "bootup" ->
             co_nmt_boot_req([Idle EXCEPT !.slave[n].est = "preop"], n)
        [] m.st # "init" /\ f # "bootup" /\ b # NoBoot ->
             LET reset == b.state = "chk_node" /\ f # "op"
             IN  IF ~b.recv THEN Idle
                 ELSE Settle(IF reset THEN co_nmt_cs_req(Idle, "reset_comm", n) ELSE Idle, n,
                             co_nmt_boot_emit_recv(b, cfg.slave[n], f))
        [] OTHER -> [Idle EXCEPT !.hb[n] = co_nmt_hb_set_st(@)]

co_nmt_recv_700(n) ==
  /\ ec[n] # "none"
  /\ Step(Received(n, ec[n]))
  /\ ec' = [ec EXCEPT ![n] = "none"]
  /\ UNCHANGED <<commands, faults>>

(* A timeout although the slave is alive is a fault: its heartbeat is late. *)
co_nmt_hb_timer(n) ==
  /\ m.hb[n].timer
  /\ Alive(n) => faults < cfg.MaxFaults
  /\ faults' = IF Alive(n) THEN faults + 1 ELSE faults
  /\ Step(co_nmt_node_err_ind([Idle EXCEPT !.hb[n].timer = FALSE, !.hb[n].state = "occurred"], n))
  /\ UNCHANGED <<ec, commands>>

BootTimer(n) ==
  /\ m.boot[n].timer
  /\ Step(IF m.boot[n].state \in OnTimeStates
          THEN Settle(Idle, n, co_nmt_boot_emit_time(m.boot[n], cfg.slave[n]))
          ELSE [Idle EXCEPT !.crashed = TRUE])
  /\ UNCHANGED <<ec, commands, faults>>

(* The boot time of the slave is over; the code compares the clock.         *)
BootTimeOver(n) ==
  /\ cfg.slave[n].boottime /\ m.boot[n] # NoBoot /\ ~m.boot[n].late
  /\ Step([Idle EXCEPT !.boot[n].late = TRUE])
  /\ UNCHANGED <<ec, commands, faults>>

(* Only a node that runs its SDO server answers.                            *)
Answers(n, results) == IF node[n] \in {"preop", "op"} THEN results ELSE {"timeout"}

UpCon(n) ==
  /\ m.boot[n].pend = "up"
  /\ \E res \in Answers(n, {"match", "differ", "abort", "timeout"}
                           \cup {r \in {"busy"} : m.boot[n].state = "wait_flash"}
                           \cup {r \in {"nomem"} : m.boot[n].state = "stop_prog"}) :
        Step(Settle(Idle, n, co_nmt_boot_up_con(m.boot[n], cfg.slave[n], res)))
  /\ UNCHANGED <<ec, commands, faults>>

DnCon(n) ==
  /\ m.boot[n].pend = "dn"
  /\ \E res \in Answers(n, {"ok", "abort", "timeout"}) :
        Step(Settle(Idle, n, co_nmt_boot_dn_con(m.boot[n], cfg.slave[n], res)))
  /\ UNCHANGED <<ec, commands, faults>>

CfgCon(n) ==
  /\ m.boot[n].pend = "cfg"
  /\ \E res \in Answers(n, {"ok", "abort", "timeout"}) :
        Step(Settle(Idle, n, co_nmt_boot_cfg_con(m.boot[n], cfg.slave[n], res)))
  /\ UNCHANGED <<ec, commands, faults>>

NodeStep(n, st, f) ==
  /\ ~m.crashed
  /\ node' = [node EXCEPT ![n] = st] /\ ec' = [ec EXCEPT ![n] = f] /\ m' = Idle
  /\ UNCHANGED <<cfg, commands>>

(* A slave's own steps: its boot-up message, its heartbeat or node guarding *)
(* answer, and its power supply.                                            *)
NodeBootup(n)    == /\ node[n] = "init" /\ ec[n] = "none" /\ NodeStep(n, "preop", "bootup")
                    /\ UNCHANGED faults
NodeHeartbeat(n) == /\ Alive(n) /\ ec[n] = "none"
                    /\ cfg.slave[n].heartbeat \/ m.boot[n].recv
                    /\ NodeStep(n, node[n], node[n])
                    /\ UNCHANGED faults
PowerOff(n)      == /\ node[n] # "off" /\ faults < cfg.MaxFaults /\ NodeStep(n, "off", ec[n])
                    /\ faults' = faults + 1
PowerOn(n)       == node[n] = "off" /\ NodeStep(n, "init", ec[n]) /\ UNCHANGED faults

Next ==
  \/ Startup
  \/ \E t \in Nodes \cup {All, Master},
        cs \in {"start", "stop", "preop", "reset_node", "reset_comm"} : Command(cs, t)
  \/ \E n \in Nodes :
       \/ co_nmt_recv_700(n) \/ co_nmt_hb_timer(n) \/ BootTimer(n) \/ BootTimeOver(n)
       \/ UpCon(n) \/ DnCon(n) \/ CfgCon(n)
       \/ NodeBootup(n) \/ NodeHeartbeat(n) \/ PowerOff(n) \/ PowerOn(n)

(* The master's timers expire and its requests are confirmed; the slaves    *)
(* are not trusted to do anything. Weak fairness is written out, with the   *)
(* enabling condition as a state predicate and the step as the change it    *)
(* makes: a boot with a timer or a pending request goes on, the boot time   *)
(* passes, and the timer of a silent slave's heartbeat consumer expires.    *)
BootGoesOn(n) ==
  \/ []<>(m.crashed \/ ~(m.boot[n].timer \/ m.boot[n].pend # "none"))
  \/ []<><<m'.boot[n] # m.boot[n]>>_vars
BootTimePasses(n) ==
  \/ []<>(m.crashed \/ ~cfg.slave[n].boottime \/ m.boot[n] = NoBoot \/ m.boot[n].late)
  \/ []<><<~m.boot[n].late /\ m'.boot[n].late>>_vars
SilenceExpires(n) ==
  \/ []<>(m.crashed \/ ~m.hb[n].timer \/ Alive(n))
  \/ []<><<m.hb[n].state # "occurred" /\ m'.hb[n].state = "occurred">>_vars

Fairness == \A n \in Nodes : BootGoesOn(n) /\ BootTimePasses(n) /\ SilenceExpires(n)

Spec == Init /\ [][Next]_vars /\ Fairness

(***************************************************************************)
(* Properties.                                                             *)
(***************************************************************************)
(* The master becomes operational by itself only after every mandatory      *)
(* slave was booted without error, and none of them is being booted again:  *)
(* co_nmt_preop_on_boot, "Wait for any mandatory slaves that have not yet   *)
(* finished booting". The exception: a slave that co_nmt_slaves_boot begins *)
(* with but that is neither to be booted nor watched is done at once, and   *)
(* the slaves after it have no boot to wait for yet.                        *)
AtOnce(n) == (Mandatory(n) \/ Keep(n)) /\ ~MayStart(n) /\ ~cfg.slave[n].heartbeat
MandatoryBooted ==
  m.auto => \A n \in Nodes : Mandatory(n) /\ ~(\E k \in 1..(n - 1) : AtOnce(k)) =>
               /\ m.slave[n].booted /\ Good(m.slave[n].es)
               /\ m.boot[n] = NoBoot

(* A start command the master sends of its own accord goes to slaves of the *)
(* network list whose last boot succeeded, whichever path sent it.          *)
FailedNotStarted ==
  \A i \in 1..Len(m.out) : m.out[i].cs = "start" /\ m.out[i].by = "master" =>
    \A n \in Nodes : m.out[i].to = n \/ (m.out[i].to = All /\ Listed(n)) =>
       Listed(n) /\ m.slave[n].booted /\ Good(m.slave[n].es)

(* A slave that booted and is to be watched does not fall silent unnoticed: *)
(* the heartbeat event reaches the master, whatever armed, stopped or       *)
(* replaced the consumer's timer since.                                     *)
Watched(n) == m.boot[n] = NoBoot /\ m.slave[n].booted /\ Good(m.slave[n].es)
                /\ cfg.slave[n].heartbeat
SilenceNoticed ==
  \A n \in Nodes : (Watched(n) /\ node[n] = "off") ~>
    (~Watched(n) \/ node[n] # "off" \/ m.hb[n].state = "occurred" \/ m.crashed)

(* The startup procedure reaches a verdict: with a boot time, and no        *)
(* software update to wait for, a pre-operational master goes on or halts,  *)
(* whatever its slaves answer and whether they answer at all, once they     *)
(* have stopped restarting. MaxFaults bounds the restarts: each Boot-up     *)
(* message begins a boot with a new boot time (co_nmt_recv_700), and two    *)
(* mandatory slaves that restart in turn postpone the verdict for ever.     *)
Bounded == \A n \in Nodes : Mandatory(n) /\ MayStart(n) =>
             cfg.slave[n].boottime /\ "update" \notin cfg.slave[n].assign
StartupDecides ==
  (m.st = "preop" /\ m.reset /\ Bounded) ~>
    (m.st # "preop" \/ ~m.reset \/ m.halt \/ m.crashed)

(* A boot timer that expires finds a handler: co_nmt_boot_emit_time asserts *)
(* boot->state->on_time. Checked with one slave that is started once, so    *)
(* that no boot is destroyed from outside.                                  *)
BootTimerHandled == ~m.crashed
=============================================================================
