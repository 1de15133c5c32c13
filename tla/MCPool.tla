------------------------------- MODULE MCPool -------------------------------
(***************************************************************************)
(* Model checking of Pool: in-cluster.yaml, in.yaml with a context named   *)
(* cluster, and the in-cluster fallback all claim the name in-cluster.     *)
(***************************************************************************)
EXTENDS Pool, TLC

CONSTANTS first, second,        \* in-cluster.yaml and in.yaml
          a, a2, b,             \* the contexts cluster, Cluster and b
          inCluster,            \* in-cluster
          in, inB,              \* in and in-b
          firstA, firstB        \* in-cluster-cluster and in-cluster-b

TwoFiles == <<first, second>>
Single   == first :> inCluster @@ second :> in
Multi    == first  :> (a :> firstA    @@ a2 :> firstA    @@ b :> firstB) @@
            second :> (a :> inCluster @@ a2 :> inCluster @@ b :> inB)

Kubeconfig(contexts, fault) == [contexts |-> contexts, current |-> a, fault |-> fault]

One == Kubeconfig({a}, "none")
Two == Kubeconfig({a, b}, "none")
Bad == Kubeconfig({a}, "client")        \* no client can be built from it

Twice == Kubeconfig({a, a2}, "none")    \* two contexts and one name

Kubeconfigs == {One, Two, Bad, Twice}

\* The first of the three to claim the name in-cluster has it, cannot use it, or
\* is gone; the second may claim that name twice, or have only a name that is
\* disabled, so that the fallback is what is left.
Secrets ==
    {first :> One    @@ second :> Two,
     first :> Bad    @@ second :> Two,
     first :> NoFile @@ second :> One,
     first :> NoFile @@ second :> Twice}
=============================================================================
