------------------------------- MODULE MCApp --------------------------------
(***************************************************************************)
(* Model checking of App: two clusters with one volume each, and a process *)
(* that starts in one of several ways.                                     *)
(***************************************************************************)
EXTENDS App, TLC

CONSTANTS k1, k2, east, west

TwoHomes == k1 :> east @@ k2 :> west

\* A volume is seen with its usage or not seen.
SeenOrNot == [Keys -> {"absent", "reporting"}]

\* Both volumes are seen or one is not: for the run about the stream.
MostlySeen == {f \in SeenOrNot : f[k1] = "reporting"}

-----------------------------------------------------------------------------
Unset == [f \in {} |-> ""]

Setup(kind, given, env) == [file |-> [kind |-> kind, settings |-> given], env |-> env]

\* No file and no environment: the process runs with the defaults.
Plain == Setup("missing", Unset, Unset)

Pushing ==
    [enabled |-> TRUE, url |-> "http://file", tenantId |-> "file",
     username |-> "file", password |-> "file",
     headers |-> "X-Api-Key" :> "secret" @@ "X-Team" :> "storage",
     interval |-> [n |-> 1, unit |-> "m"], caFile |-> "ca"]

\* Without basic authentication, and with a header that names the tenant.
PushingHeaders ==
    [enabled |-> TRUE, url |-> "http://file", tenantId |-> "file",
     headers |-> "Authorization" :> "secret" @@ "X-Scope-Orgid" :> "storage"]

Credentials == [username |-> "env", password |-> "env", url |-> "http://env"]

\* Configurations that are accepted, and ones that are not.
MCSetups ==
    {Plain,
     Setup("yaml", Pushing, Unset),
     Setup("yaml", Pushing, Credentials),
     Setup("yaml", PushingHeaders, Unset),
     Setup("yaml", [enabled |-> TRUE, passwordFile |-> "mounted"],
           [url |-> "http://env", username |-> "env"]),
     Setup("yaml", [enabled |-> TRUE, url |-> "http://file",
                    pushTimeout |-> [n |-> 0, unit |-> "none"]], Unset),
     Setup("yaml", [enabled |-> TRUE], Unset),
     Setup("yaml", [clusterConcurrency |-> 0], Unset),
     Setup("yaml", [interval |-> [n |-> 90, unit |-> "none"]], Unset),
     Setup("yaml", [intervall |-> [n |-> 90, unit |-> "s"]], Unset),
     Setup("empty", Unset, Unset),
     Setup("unreadable", Unset, Credentials)}

\* With the defaults a browser opens a stream and asks for refreshes; with other
\* configurations it looks at the page that shows them.  None of these is a
\* step that must happen.
MCNext ==
    /\ AppNext
    /\ IF setup = Plain THEN shown' = shown ELSE <<pc, gone, clicks>>' = <<pc, gone, clicks>>

MCSpec == AppInit /\ [][MCNext]_allVars /\ AppFairness
=============================================================================
