---------------------------- MODULE MCNmtMaster ----------------------------
EXTENDS NmtMaster

Slave(assign, identity, heartbeat, od, boottime) ==
  [assign |-> assign, identity |-> identity, heartbeat |-> heartbeat, od |-> od,
   boottime |-> boottime]

MandatorySlave == Slave({"listed", "boot", "mandatory"}, {"D", "N"}, TRUE, {"stored"}, TRUE)
OptionalSlave  == Slave({"listed", "boot"}, {}, FALSE, {"stored"}, FALSE)
KeptSlave      == Slave({"listed", "boot", "mandatory", "keep", "chksw"}, {}, TRUE,
                        {"cfgdate", "sw_id", "stored"}, TRUE)
UpdatedSlave   == Slave({"listed", "boot", "mandatory", "chksw", "update"}, {}, FALSE,
                        {"sw_id", "program"}, TRUE)
PlainSlave     == Slave({"listed", "mandatory"}, {}, TRUE, {}, FALSE)
SilentSlave    == Slave({"listed", "mandatory"}, {}, FALSE, {}, FALSE)
GuardedSlave   == Slave({"listed", "boot", "keep"}, {}, FALSE, {"cfgdate"}, FALSE)
UnlistedSlave  == Slave({}, {}, FALSE, {}, FALSE)
UnknownSlave   == Slave({"listed", "boot", "mandatory", "chksw"}, {}, FALSE, {}, TRUE)
EmptySlave     == Slave({"listed", "boot", "chksw", "update"}, {}, FALSE, {"sw_id"}, FALSE)

Config(startup, s1, s2, nc, nf) ==
  [startup |-> startup, slave |-> <<s1, s2>>, MaxCommands |-> nc, MaxFaults |-> nf]

MCConfigs ==
  { Config({}, MandatorySlave, OptionalSlave, 0, 2),
    Config({"all", "stopAll"}, KeptSlave, PlainSlave, 0, 0),
    Config({"all"}, UpdatedSlave, UnlistedSlave, 0, 1),
    Config({"manual", "resetAll"}, PlainSlave, GuardedSlave, 1, 0),
    Config({"nostart"}, OptionalSlave, SilentSlave, 1, 1),
    Config({}, SilentSlave, MandatorySlave, 0, 0),
    Config({"all"}, OptionalSlave, PlainSlave, 1, 0),
    Config({"all"}, PlainSlave, PlainSlave, 0, 2),
    Config({"stopAll"}, PlainSlave, UnlistedSlave, 1, 1),
    Config({"resetAll"}, PlainSlave, OptionalSlave, 0, 1),
    Config({}, UnknownSlave, EmptySlave, 0, 0) }

MCKeepAlive == { Config({}, KeptSlave, UnlistedSlave, 0, 0) }
=============================================================================
