-------------------------- MODULE MCTcEnforcement ---------------------------
EXTENDS TcEnforcement

CONSTANTS MaxAsks, MaxEvents

VARIABLES asks, events   \* how often each has happened

mcVars == <<tcVars, asks, events>>

\* Every device has a class of its own, but all filters, and all redirects, would
\* like to have the same priority.
MCClassOf == [d \in Devices |-> d]
MCFilterBase == [c \in Classes |-> 0]
MCRedirectBase == [i \in Ips |-> 0]

\* The devices differ in nothing but their names, so one of them may be the one
\* that the requests are about. It has at most one limit to begin with; another
\* may have a download limit, so that tc stays in use without it.
Chosen == CHOOSE d \in Devices : TRUE

MCInit ==
    /\ TcInit
    /\ ip = CHOOSE a \in [Devices -> Ips] : \A d, e \in Devices : d # e => a[d] # a[e]
    /\ \E dir \in Directions : want[Chosen][dir] = None
    /\ \A d \in Devices \ {Chosen} : want[d]["upload"] = None
    /\ asks = 0 /\ events = 0

\* Addresses that nobody has are free to move to.
MCAsk ==
    /\ asks < MaxAsks /\ asks' = asks + 1
    /\ Ask
    /\ \E r \in Requests : job'[r].dev = Chosen

MCEvent ==
    /\ events < MaxEvents /\ events' = events + 1
    /\ (Move /\ \A d \in Devices : OwnAddress(d)') \/ CommandFails \/ Restart

MCNext ==
    \/ (\E p \in Procs : CallStep(p)) /\ UNCHANGED <<asks, events>>
    \/ MCAsk /\ UNCHANGED events
    \/ MCEvent /\ UNCHANGED asks

MCSpec ==
    /\ MCInit /\ [][MCNext]_mcVars
    /\ \A p \in Procs : WF_mcVars(CallStep(p) /\ UNCHANGED <<asks, events>>)
=============================================================================
