---------------------------- MODULE Enforcement -----------------------------
(***************************************************************************)
(* How the agent blocks and unblocks: the callers of the blacklist manager *)
(* and the table of timers they keep beside it.  A block trigger (detector *)
(* or port scan), an operator's command on the socket, the two cloud loops *)
(* and the sweep loop each call the manager and then the timer table, with *)
(* no lock around the pair.  The table is saved to disk when the agent is  *)
(* told to stop, and restored when it starts.                              *)
(***************************************************************************)
EXTENDS IpsetManager

CONSTANTS
    Triggers,    \* goroutines that run a block trigger
    Operators,   \* connections of the command line to the socket
    Clouds,      \* heartbeatLoop and diffLoop
    Sweepers,    \* sweepLoop, or none if Config.SweepInterval is 0
    AutoSave,    \* was snapshot.Manager.Start called?
    LocalBlockTTL, CloudBlockTTL, MaxTTL,
    TTLRequests  \* the ttl argument of a command; 0 when it is missing

ASSUME RolesAssumption ==
    /\ Goroutine = Triggers \cup Operators \cup Clouds \cup Sweepers
    /\ Triggers \cap (Operators \cup Clouds \cup Sweepers) = {}
    /\ Operators \cap (Clouds \cup Sweepers) = {}
    /\ Clouds \cap Sweepers = {}
    /\ MaxTTL \in Nat
    /\ LocalBlockTTL \in 1 .. MaxTTL
    /\ CloudBlockTTL \in 1 .. MaxTTL
    /\ TTLRequests \subseteq 0 .. MaxTTL
    /\ AutoSave \in BOOLEAN

VARIABLES
    entries,   \* the timers: ttl.Manager.entries
    disk,      \* the timers in state.json, which elapse there too
    job,       \* what each operator or sweeper does around its calls
    life,      \* how far main has come since the socket answers
    untimed    \* history: addresses blocked since before the agent started

TTL == INSTANCE TtlManager WITH Key <- Target

timers == <<entries, disk, job, life, untimed>>
evars == <<vars, timers>>

Started == life # "loading"

NoJob == [do |-> "none", ttl |-> 0, due |-> {}]

EInit ==
    /\ Init
    /\ entries = TTL!Empty /\ disk = TTL!Empty
    /\ job = [g \in Goroutine |-> NoJob]
    /\ life = "loading"
    /\ untimed = {}

-----------------------------------------------------------------------------
(* Block triggers of the detector and of the port scan detector. *)

Trigger(g, t) ==
    /\ g \in Triggers /\ Started
    /\ Block(g, t)
    /\ UNCHANGED timers

\* Only an accepted block gets a timer.
TriggerReturn(g) ==
    /\ g \in Triggers
    /\ Return(g)
    /\ IF call[g].res = "accepted" THEN TTL!Add(call[g].tgt, LocalBlockTTL, "local")
                                   ELSE UNCHANGED entries
    /\ UNCHANGED <<disk, job, life, untimed>>

-----------------------------------------------------------------------------
(* Commands of an operator: blocklistAdd and blocklistDel. *)

BlocklistAdd(g, t, force, ttl) ==
    /\ g \in Operators
    /\ IF force THEN ForceBlock(g, t) ELSE ~IsLocalWhitelisted(t) /\ Block(g, t)
    /\ job' = [job EXCEPT ![g] = [NoJob EXCEPT !.do = "add", !.ttl = ttl]]
    /\ UNCHANGED <<entries, disk, life, untimed>>

BlocklistDel(g, t) ==
    /\ g \in Operators
    /\ Unblock(g, t)
    /\ job' = [job EXCEPT ![g] = [NoJob EXCEPT !.do = "del"]]
    /\ UNCHANGED <<entries, disk, life, untimed>>

\* Mutant: a command without a ttl blocks for good.
OperatorReturnForGood(g) ==
    /\ g \in Operators
    /\ Return(g)
    /\ CASE call[g].res = "accepted" /\ job[g].ttl > 0 ->
                TTL!Add(call[g].tgt, job[g].ttl, "local")
         [] call[g].res = "removed" -> TTL!Remove(call[g].tgt)
         [] OTHER -> UNCHANGED entries
    /\ job' = [job EXCEPT ![g] = NoJob]
    /\ UNCHANGED <<disk, life, untimed>>

\* The timer is changed only when the manager did what was asked.
OperatorReturn(g) ==
    /\ g \in Operators
    /\ Return(g)
    /\ CASE call[g].res = "accepted" -> TTL!Add(call[g].tgt, job[g].ttl, "local")
         [] call[g].res = "removed" -> TTL!Remove(call[g].tgt)
         [] OTHER -> UNCHANGED entries
    /\ job' = [job EXCEPT ![g] = NoJob]
    /\ UNCHANGED <<disk, life, untimed>>

-----------------------------------------------------------------------------
(* The cloud loops: applyDecisions and the whitelist of applyTenantDiff. *)

CloudChange(g, batch) ==
    /\ g \in Clouds /\ Started
    /\ ApplyCloud(g, batch)
    /\ UNCHANGED timers

\* Every block that the whitelist did not filter gets a timer, also one whose
\* ipset command failed.
CloudReturn(g) ==
    /\ g \in Clouds
    /\ Return(g)
    /\ TTL!Add({e.ip : e \in {f \in call[g].all : f.list = "black" /\ f.op = "add"}},
               0, "cloud")
    /\ UNCHANGED <<disk, job, life, untimed>>

-----------------------------------------------------------------------------
(* The sweep loop: Sweep takes the expired timers out of the table, then     *)
(* onExpire unblocks their addresses one after the other.                    *)

\* Mutant: the expired timers are forgotten and nothing is unblocked.
SweepForgets(g) ==
    /\ g \in Sweepers /\ phase = "running"
    /\ job[g].due = {} /\ call[g] = Idle
    /\ TTL!Collect
    /\ UNCHANGED <<vars, disk, job, life, untimed>>

Sweep(g) ==
    /\ g \in Sweepers /\ phase = "running"
    /\ job[g].due = {} /\ call[g] = Idle
    /\ job' = [job EXCEPT ![g].due = TTL!Expired]
    /\ TTL!Collect
    /\ UNCHANGED <<vars, disk, life, untimed>>

OnExpire(g, t) ==
    /\ g \in Sweepers
    /\ t \in job[g].due
    /\ Unblock(g, t)
    /\ job' = [job EXCEPT ![g].due = @ \ {t}]
    /\ UNCHANGED <<entries, disk, life, untimed>>

\* A failed unblock is logged; the timer is gone.
OnExpireReturn(g) ==
    /\ g \in Sweepers
    /\ Return(g)
    /\ UNCHANGED timers

-----------------------------------------------------------------------------
(* Start, snapshot, time, and the end of the process. *)

StartManager ==
    /\ Start
    /\ untimed' = IF phase' = "running" THEN AddrsOf(blocked') ELSE untimed
    /\ UNCHANGED <<entries, disk, job, life>>

\* The socket answers before the timers are restored.
LoadAndRestore ==
    /\ phase = "running" /\ life = "loading"
    /\ life' = "serving"
    /\ TTL!Restore(disk)
    /\ untimed' = {ip \in untimed : entries'[ip] = TTL!NoEntry}
    /\ UNCHANGED <<vars, disk, job>>

\* autoSaveLoop
Save ==
    /\ AutoSave /\ Started
    /\ disk' = entries
    /\ disk' # disk
    /\ UNCHANGED <<vars, entries, job, life, untimed>>

EndProcess ==
    /\ Crash
    /\ entries' = TTL!Empty
    /\ job' = [g \in Goroutine |-> NoJob]
    /\ life' = "loading"
    /\ untimed' = {}

\* The signal handler saves the table; the goroutines run on until the
\* process ends.
SaveOnSignal ==
    /\ life = "serving"
    /\ life' = "stopping"
    /\ disk' = entries
    /\ UNCHANGED <<vars, entries, job, untimed>>

\* The file keeps what the last save wrote, or is empty if the process was
\* killed after os.WriteFile truncated it (WriteAtomic is not set).
Exit ==
    /\ EndProcess
    /\ disk' \in {disk} \cup (IF life = "serving" THEN {TTL!Empty} ELSE {})

TickAll ==
    /\ kernel' = Countdown
    /\ entries' = TTL!Elapse(entries)
    /\ disk' = TTL!Elapse(disk)
    /\ <<kernel, entries, disk>>' # <<kernel, entries, disk>>
    /\ UNCHANGED <<kernelWhite, memory, call, phase, history, job, life, untimed>>

\* A step inside the manager; an address that leaves its map is no longer one
\* that was blocked at the start.
Manager(g) ==
    /\ CallStep(g)
    /\ untimed' = untimed \cap AddrsOf(blocked')
    /\ UNCHANGED <<entries, disk, job, life>>

Ask(g) ==
    \/ \E t \in Target :
          \/ Trigger(g, t)
          \/ \E force \in BOOLEAN, ttl \in TTLRequests : BlocklistAdd(g, t, force, ttl)
          \/ BlocklistDel(g, t)
    \/ \E batch \in CloudBatches : CloudChange(g, batch)

Answer(g) ==
    TriggerReturn(g) \/ OperatorReturn(g) \/ CloudReturn(g) \/ OnExpireReturn(g)

Expire(g) == Sweep(g) \/ \E t \in job[g].due : OnExpire(g, t)

ENext ==
    \/ StartManager \/ LoadAndRestore \/ Save \/ SaveOnSignal \/ Exit \/ TickAll
    \/ \E g \in Goroutine : Ask(g) \/ Manager(g) \/ Answer(g) \/ Expire(g)

ESpec == EInit /\ [][ENext]_evars

\* Time passes, the process is started again when it ended, ipset commands end,
\* the handlers run, and the ticker of sweepLoop fires.
EFairness ==
    /\ WF_evars(StartManager) /\ WF_evars(LoadAndRestore) /\ WF_evars(TickAll)
    /\ \A g \in Goroutine :
          WF_evars(Manager(g)) /\ WF_evars(Answer(g)) /\ WF_evars(Expire(g))

EFairSpec == ESpec /\ EFairness

-----------------------------------------------------------------------------
(* Properties. *)

\* The kinds of the variables this module adds.
TimersTypeOK ==
    /\ entries \in TTL!Tables /\ disk \in TTL!Tables
    /\ job \in [Goroutine -> [do : {"none", "add", "del"}, ttl : 0 .. MaxTTL,
                              due : SUBSET Target]]
    /\ life \in {"loading", "serving", "stopping"}
    /\ untimed \subseteq IP

\* No handler is at work on ip.
Quiet(ip) ==
    \A g \in Goroutine : ~Touches(call[g], ip) /\ ip \notin AddrsOf(job[g].due)

\* Every block has a timer (the trigger of main.go, blocklistAdd and
\* applyDecisions add one): an address blocked since the start, that no two
\* handlers changed at once and no command failed for, has its timer whenever
\* no handler is at work on it.
TimedBlock ==
    phase = "running" =>
      \A ip \in IP \ (disturbed \cup untimed) :
        ip \in blocked /\ Quiet(ip) => entries[ip] # TTL!NoEntry

\* With a sweep loop, the address of a block with a timer leaves the kernel,
\* whatever the triggers and operators do meanwhile, unless handlers collide.
AutoUnblock ==
    \A ip \in IP :
        InKernel(ip) /\ ip \notin untimed
            ~> ~InKernel(ip) \/ ip \in untimed \cup disturbed \/ phase # "running"

\* A block with a timer expires while the agent goes on running.
TimedBlockExpires ==
    \A ip \in IP :
        InKernel(ip) /\ entries[ip] # TTL!NoEntry /\ life = "serving"
            ~> ~InKernel(ip) \/ life # "serving"

=============================================================================
