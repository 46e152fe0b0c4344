---------------------- MODULE MCHardwareProfileWebhook ----------------------
(* Instances of HardwareProfileWebhook for TLC. *)
EXTENDS HardwareProfileWebhook

\* Node scheduling with a claim, and a queue with a resource count.
Gpu   == [count |-> 0, dra |-> "gpu", queue |-> "", sel |-> "z1", tols |-> {"t1"}]
Queue == [count |-> 1, dra |-> "", queue |-> "q1", sel |-> "", tols |-> {}]

MCContents == {Gpu, Queue}

\* Two profiles beside the Notebooks and a namesake elsewhere that does not
\* exist yet.
MCProfiles == [ref \in {[ns |-> "home", name |-> "a"], [ns |-> "home", name |-> "b"],
                        [ns |-> "shared", name |-> "a"]} |->
                  IF ref.ns = "shared" THEN NoProfile ELSE IF ref.name = "a" THEN Gpu ELSE Queue]

\* The container of the Notebook alone, with a sidecar, and two foreign ones.
MCLayouts == {{"nb"}, {"nb", "side"}, {"side", "extra"}}

\* A single container of another name, and the same with a sidecar.
RenamedLayouts == {{"side"}, {"side", "extra"}}
=============================================================================
