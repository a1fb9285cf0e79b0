-------------------------- MODULE BootstrapValidator --------------------------
(***************************************************************************)
(* The bootstrap peer validator, tools/bootstrap/validate-bootstrap.ts.    *)
(* It takes a list of multiaddrs, opens a TCP connection to one after the  *)
(* other and gives a verdict by its exit code.  Peers come and go between  *)
(* the checks: there may be no moment at which the verdict was true.       *)
(***************************************************************************)
EXTENDS Integers, FiniteSets

CONSTANTS
    Addr,       \* what may be given as a multiaddr
    Valid,      \* the part of it that parses
    Threshold   \* --threshold, in percent

ASSUME BootstrapValidatorAssumption ==
    /\ Valid \subseteq Addr /\ IsFiniteSet(Addr)
    /\ Threshold \in 0..100

VARIABLES
    up,        \* external: the peers that accept connections
    step,      \* what main does next
    allPeers,  \* the addresses to validate
    left,      \* those still to be checked
    ok,        \* those that were reachable
    exit,      \* the exit code, once main is done
    seenUp,    \* history: the peers that were up at some time since main began
    alwaysUp   \* history: those that were up all the time and answered in time

validatorVars == <<up, step, allPeers, left, ok, exit, seenUp, alwaysUp>>

ValidatorTypeOK ==
    /\ up \subseteq Valid
    /\ step \in {"resolve", "fetch", "check", "done"}
    /\ allPeers \subseteq Addr
    /\ left \subseteq allPeers /\ ok \subseteq allPeers \ left
    /\ exit \in 0..3
    /\ alwaysUp \subseteq up /\ up \subseteq seenUp /\ seenUp \subseteq Valid

\* resolvePeers: --peers goes before BOOTSTRAP_PEERS.
Resolved(cli, env) == IF cli # {} THEN cli ELSE env

ResolvePeers ==
    /\ step = "resolve"
    /\ \E cli, env \in SUBSET Addr : allPeers' = Resolved(cli, env)
    /\ step' \in {"fetch", "check"}
    /\ left' = IF step' = "check" THEN allPeers' ELSE {}
    /\ UNCHANGED <<up, ok, exit, seenUp, alwaysUp>>

\* fetchFromCoordinator adds no address, whether the coordinator is healthy or not:
\* GET /bootstrap/peers is answered with an object, which is not accepted, and the
\* entries of GET /proxies have neither a multiaddr nor an address.
FetchFromCoordinator ==
    /\ step = "fetch"
    /\ left' = allPeers
    /\ step' = "check"
    /\ UNCHANGED <<up, allPeers, ok, exit, seenUp, alwaysUp>>

\* An address that does not parse is not tried.
Invalid(a) ==
    /\ step = "check"
    /\ a \in left \ Valid
    /\ left' = left \ {a}
    /\ UNCHANGED <<up, step, allPeers, ok, exit, seenUp, alwaysUp>>

\* Mutant: a check that times out is not counted as dead.
MutReachable(a) == TRUE
Reachable(a) == a \in up

\* The connection is there, or it is refused, fails, or is given up after the
\* timeout.
TcpCheck(a) ==
    /\ step = "check"
    /\ a \in left \cap Valid
    /\ left' = left \ {a}
    /\ \/ Reachable(a) /\ ok' = ok \cup {a} /\ UNCHANGED alwaysUp
       \/ alwaysUp' = alwaysUp \ {a} /\ UNCHANGED ok
    /\ UNCHANGED <<up, step, allPeers, exit, seenUp>>

\* Math.round(reachable / total * 100)
Pct(reachable, total) == (200 * reachable + total) \div (2 * total)

ExitCode(reachable, total) ==
    IF total = 0 THEN 3
    ELSE IF reachable = 0 THEN 2
    ELSE IF Pct(reachable, total) < Threshold THEN 1
    ELSE 0

Summarize ==
    /\ step = "check"
    /\ left = {}
    /\ exit' = ExitCode(Cardinality(ok), Cardinality(allPeers))
    /\ step' = "done"
    /\ UNCHANGED <<up, allPeers, left, ok, seenUp, alwaysUp>>

PeerUp(a) ==
    /\ up' = up \cup {a}
    /\ seenUp' = seenUp \cup {a}
    /\ UNCHANGED <<step, allPeers, left, ok, exit, alwaysUp>>

PeerDown(a) ==
    /\ up' = up \ {a}
    /\ alwaysUp' = alwaysUp \ {a}
    /\ UNCHANGED <<step, allPeers, left, ok, exit, seenUp>>

ValidatorStep ==
    \/ ResolvePeers
    \/ FetchFromCoordinator
    \/ \E a \in Addr : Invalid(a)
    \/ \E a \in Addr : TcpCheck(a)
    \/ Summarize
    \/ \E a \in Valid \ up : PeerUp(a)
    \/ \E a \in up : PeerDown(a)

ValidatorInit ==
    /\ step = "resolve"
    /\ allPeers = {} /\ left = {} /\ ok = {} /\ exit = 0
    /\ seenUp = up /\ alwaysUp = up

-----------------------------------------------------------------------------

\* The verdict is never better than that on all the peers that were up at some time
\* of the run, and never worse than that on the peers that were up all the time and
\* answered in time, although no peer was looked at twice and none at the same time.
VerdictInBounds ==
    step = "done" =>
        LET total == Cardinality(allPeers)
        IN  /\ ExitCode(Cardinality(allPeers \cap seenUp), total) <= exit
            /\ exit <= ExitCode(Cardinality(allPeers \cap alwaysUp), total)
=============================================================================
