----------------------------- MODULE MCPublish -----------------------------
(***************************************************************************)
(* Instances of Publish for TLC: two carriers, two keys, two builds.       *)
(***************************************************************************)
EXTENDS Publish, TLC

CONSTANTS a, b, others, volte, nr, on, off

McBase == volte :> on

Plain  == [keys |-> (volte :> off), apn |-> FALSE]
Curated == [keys |-> (volte :> on), apn |-> TRUE]
Curated2 == [keys |-> (volte :> on) @@ (nr :> off), apn |-> TRUE]

\* Carrier a is one Google forgot; b is certified.  The first build has b in a
\* file of its own, the second has it inside others.pb.
Moved == <<(others :> [ver |-> 10, set |-> (a :> Plain)])
             @@ (b :> [ver |-> 10, set |-> (b :> Curated)]),
           others :> [ver |-> 20, set |-> (a :> Plain) @@ (b :> Curated)]>>

\* Two builds that differ only in the file of b.
Shared == <<(others :> [ver |-> 10, set |-> (a :> Plain)])
              @@ (b :> [ver |-> 10, set |-> (b :> Curated)]),
            (others :> [ver |-> 10, set |-> (a :> Plain)])
              @@ (b :> [ver |-> 20, set |-> (b :> Curated2)])>>

Auto  == [auto |-> TRUE, carriers |-> Nothing, skip |-> {}]
\* Writes nothing Google did not write already.
JustB == [auto |-> FALSE, carriers |-> (b :> DefaultEntry), skip |-> {}]
Tuned == [auto |-> TRUE, skip |-> {},
          carriers |-> (b :> [over |-> (nr :> on), apn |-> TRUE])]

McConfigs == {Auto, JustB, Tuned}
TwoConfigs == {Auto, Tuned}
BothSims  == {{a, b}}

\* The hypotheses of the theorems on sources and reports are those of ordinary
\* builds.  JustB is there to break NoIdleRuns, and Shared to break OthersIdentify.
ASSUME OrdinaryBuilds ==
    /\ OthersTell
    /\ Image = Moved => OthersIdentify
    /\ \A i \in Images, c \in TwoConfigs, present \in Presents : Writes(Image[i], c, present)
=============================================================================
