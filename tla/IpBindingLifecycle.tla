------------------------ MODULE IpBindingLifecycle ------------------------
(***************************************************************************)
(* IpBindingLifecycleService: every ten seconds, under the reconcilers'    *)
(* lock, it walks over the active address bindings of proxy-backed blocked *)
(* devices.  A binding whose address another MAC leases is released; a     *)
(* binding whose device leases another address is moved to it, the new     *)
(* address being blocked and recorded before the old one is released.      *)
(***************************************************************************)
EXTENDS BlockingState, IpBindingMutationLock

VARIABLE life

LifeIdle == {"off", "waiting"}
LifeSteps == {"decide", "block", "record", "bind", "release", "remaining", "unblock"}

LifeOff     == [pc |-> "off"]
LifeWaiting == [pc |-> "waiting"]
LifeRunning ==
    [pc : LifeSteps,
     leases : [Devices -> Addresses],   \* snapshot
     todo : SUBSET (Devices \X Ips),    \* bindings the loop has left
     owner : SUBSET Devices,            \* the device of the current binding
     from : Addresses,                  \* the address of the current binding
     to : Addresses]                    \* the address it moves to, if it moves

LifeTypeOK == life \in {LifeOff, LifeWaiting} \cup LifeRunning

LifeInit == life = LifeOff

-----------------------------------------------------------------------------

LifeFrame == UNCHANGED <<policy, identity, deviceIp, network>>

LifeTick ==
    /\ life = LifeOff
    /\ life' = LifeWaiting
    /\ Enqueue("life")
    /\ UNCHANGED stateVars

\* Bindings of devices that are unvalidated or visible on layer 2 are skipped.
LifeSnapshot ==
    /\ life = LifeWaiting
    /\ Holds("life")
    /\ life' = [pc |-> "decide", leases |-> lease,
                todo |-> {b \in ActiveBindings : ProxyBacked(identity[b[1]])},
                owner |-> {}, from |-> NoIp, to |-> NoIp]
    /\ UNCHANGED <<stateVars, lockQueue>>

\* Case 1: a different MAC leases the address.
Claimed(d, ip) == \E e \in Devices \ {d} : life.leases[e] = ip

\* Case 2: the device leases another address.
Rebound(d, ip) == ~Claimed(d, ip) /\ life.leases[d] \notin {NoIp, ip}

\* The policy of one binding's device is read again, and its case chosen.
LifeDecide ==
    /\ life.pc = "decide"
    /\ \E b \in life.todo :
         LET picked(pc, to) == [life EXCEPT !.pc = pc, !.todo = @ \ {b}, !.owner = {b[1]},
                                            !.from = b[2], !.to = to]
         IN  \/ /\ b[1] \in policy /\ Claimed(b[1], b[2])
                /\ life' = picked("release", NoIp)
             \/ /\ b[1] \in policy /\ Rebound(b[1], b[2])
                /\ life' = picked("block", life.leases[b[1]])
             \/ /\ b[1] \notin policy \/ ~(Claimed(b[1], b[2]) \/ Rebound(b[1], b[2]))
                /\ life' = [life EXCEPT !.todo = @ \ {b}]
    /\ UNCHANGED <<stateVars, lockQueue>>

LifeBlock ==
    /\ life.pc = "block"
    /\ BlockIp(life.to)
    /\ life' = [life EXCEPT !.pc = "record"]
    /\ LifeFrame
    /\ UNCHANGED <<record, bindings, lockQueue>>

LifeRecordDevice ==
    /\ life.pc = "record"
    /\ ActivateRecords(life.owner)
    /\ life' = [life EXCEPT !.pc = "bind"]
    /\ LifeFrame
    /\ UNCHANGED <<bindings, kernel, lockQueue>>

\* Faulty variant, for the mutation runs: the new binding is not written.
LifeForgetBinding ==
    /\ life.pc = "bind"
    /\ life' = [life EXCEPT !.pc = "release"]
    /\ LifeFrame
    /\ UNCHANGED <<record, bindings, kernel, lockQueue>>

LifeRecordBinding ==
    /\ life.pc = "bind"
    /\ BindIps(life.owner, life.to)
    /\ life' = [life EXCEPT !.pc = "release"]
    /\ LifeFrame
    /\ UNCHANGED <<record, kernel, lockQueue>>

LifeRelease ==
    /\ life.pc = "release"
    /\ ReleaseBindings(life.owner, life.from)
    /\ life' = [life EXCEPT !.pc = "remaining"]
    /\ LifeFrame
    /\ UNCHANGED <<record, kernel, lockQueue>>

NextBinding == [life EXCEPT !.pc = "decide", !.owner = {}, !.from = NoIp, !.to = NoIp]

\* activeBindings again: the address stays blocked while anybody is bound to it.
LifeReadRemaining ==
    /\ life.pc = "remaining"
    /\ life' = IF \E b \in ActiveBindings : b[2] = life.from
               THEN NextBinding
               ELSE [life EXCEPT !.pc = "unblock"]
    /\ UNCHANGED <<stateVars, lockQueue>>

LifeUnblock ==
    /\ life.pc = "unblock"
    /\ UnblockIp(life.from)
    /\ life' = NextBinding
    /\ LifeFrame
    /\ UNCHANGED <<record, bindings, lockQueue>>

LifeDone ==
    /\ life.pc = "decide" /\ life.todo = {}
    /\ life' = LifeOff
    /\ Resolve("life")
    /\ UNCHANGED stateVars

\* A read, a query or a command fails: the cycle is abandoned where it is.
LifeFails ==
    /\ life # LifeOff
    /\ life' = LifeOff
    /\ Resolve("life")
    /\ UNCHANGED stateVars

LifeStep ==
    \/ LifeTick \/ LifeSnapshot \/ LifeDecide
    \/ LifeBlock \/ LifeRecordDevice \/ LifeRecordBinding
    \/ LifeRelease \/ LifeReadRemaining \/ LifeUnblock \/ LifeDone

=============================================================================
