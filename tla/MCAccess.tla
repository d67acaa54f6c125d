------------------------------ MODULE MCAccess ------------------------------
(***************************************************************************)
(* Restarts, sign-in, secrets and backups, in one run for TLC: each        *)
(* behaviour moves one component and leaves the others in their initial    *)
(* state, and the properties of all of them are checked.                   *)
(***************************************************************************)
EXTENDS AlertEngine, Sessions, LoginLimiter, Secrets, Backups, TLC

CONSTANT Components   \* the components this run moves
VARIABLE component    \* the one that moves in this behaviour

CONSTANTS a1, a2, q1, q2

\* a1 administrates, a2 is not there yet.
StartRoles == (a1 :> 4) @@ (a2 :> 0)

\* The concurrent requests of every component are interchangeable.
Symmetric == Permutations({q1, q2})

allVars == <<component, vars, sessionVars, limiterVars, requestVars,
             remoteVars, channelVars, backupVars>>

AccessInit ==
    /\ component \in Components
    /\ component # "AlertEngine" => autoResolve = TRUE
    /\ Init
    /\ SessionsInit
    /\ component # "LoginLimiter" => inRedis = TRUE
    /\ LimiterInit
    /\ RequestInit
    /\ RemoteStoreInit
    /\ component # "RemoteStore" =>
           remote.url = (CHOOSE u \in Urls : TRUE) /\ remote.key = (CHOOSE k \in Keys : TRUE)
    /\ component # "ChannelForms" => channel = [exists |-> TRUE, secret |-> CHOOSE s \in Secrets : TRUE]
    /\ ChannelFormsInit
    /\ BackupsInit

Rest ==
    /\ UNCHANGED component
    /\ IF component = "AlertEngine" THEN TRUE ELSE UNCHANGED vars
    /\ IF component = "Sessions" THEN TRUE ELSE UNCHANGED sessionVars
    /\ IF component = "LoginLimiter" THEN TRUE ELSE UNCHANGED limiterVars
    /\ IF component = "RequestLimiter" THEN TRUE ELSE UNCHANGED requestVars
    /\ IF component = "RemoteStore" THEN TRUE ELSE UNCHANGED remoteVars
    /\ IF component = "ChannelForms" THEN TRUE ELSE UNCHANGED channelVars
    /\ IF component = "Backups" THEN TRUE ELSE UNCHANGED backupVars

AccessNext ==
    \/ component = "AlertEngine" /\ Next /\ Rest
    \/ component = "Sessions" /\ SessionsNext /\ Rest
    \/ component = "LoginLimiter" /\ LimiterNext /\ Rest
    \/ component = "RequestLimiter" /\ RequestNext /\ Rest
    \/ component = "RemoteStore" /\ RemoteStoreNext /\ Rest
    \/ component = "ChannelForms" /\ ChannelFormsNext /\ Rest
    \/ component = "Backups" /\ BackupsNext /\ Rest

AccessSpec == AccessInit /\ [][AccessNext]_allVars
=============================================================================
