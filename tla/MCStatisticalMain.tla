------------------------- MODULE MCStatisticalMain -------------------------
(***************************************************************************)
(* Two cases of the corpus, two probes, three metrics in two scenarios,    *)
(* two components of which one depends on the other, and nineteen source   *)
(* trees: one in order, the others with one defect or one change each.     *)
(***************************************************************************)
EXTENDS StatisticalMain, TLC

(* run_statistical_exact_replay.py:30, mc_core.py:11,                        *)
(* statistical_distribution_runner.py:81.                                    *)
MCBatch == {125, 128, 1000, 2048}
MCScenarioOf == [cdf |-> "pooled", rate |-> "pooled", shape |-> "structural"]
MCCase == {"weeks-partial-censorship", "risk-p50-zero-absent"}
MCCoverage == {"censorship", "zero_percentile"}

(* The risk score of the second case is absent. *)
Old == [c \in MCCase |-> IF c = "weeks-partial-censorship" THEN [p50 |-> 4, risk |-> 2] ELSE [p50 |-> 0]]
New == [c \in MCCase |-> [Old[c] EXCEPT !.p50 = @ + 1]]
Lacking == [Old EXCEPT !["weeks-partial-censorship"] = [p50 |-> 4]]

Engine(results) == [results |-> [b \in MCBatch |-> results],
                    accepts |-> [zeros |-> FALSE, weeks |-> TRUE]]

Corpus(results) ==
  [valid |-> TRUE, expected |-> results, sims |-> [c \in MCCase |-> 1000],
   traits |-> [c \in MCCase |-> {IF c = "weeks-partial-censorship" THEN "censorship" ELSE "zero_percentile"}]]

Measures ==
  [cdf   |-> [kind |-> "discrete_cdf", effect |-> 10, radius |-> 10, extreme |-> 900, margin |-> 25],
   rate  |-> [kind |-> "rate_difference", low |-> -8, high |-> 12, effect |-> 2, extreme |-> 700,
              margin |-> 20],
   shape |-> [kind |-> "exact_structural", mismatch |-> FALSE]]

(* A tree where both engines and the corpus have the same results. *)
Tree(results, semantics) ==
  [corpus |-> Corpus(results), probes |-> [valid |-> TRUE, expected |-> Engine(results).accepts],
   python |-> Engine(results),
   typescript |-> [results |-> results, accepts |-> Engine(results).accepts],
   protocol |-> [wellFormed |-> TRUE, compatible |-> TRUE, seeds |-> TRUE, scenarios |-> TRUE,
                 permutations |-> 2047, structural |-> {"shape"}],
   measures |-> Measures, policy |-> TRUE, semantics |-> semantics,
   files |-> [f \in {"normative_standard", "prng_vectors", "distribution_calibration"} |-> "valid"]]

Documents(src) == ProofDocuments(src, DueProofs(src))

Required1 == [prng |-> {"reference-corpus"} \cup DynamicProof,
              response |-> {"reference-corpus", "deterministic-parity", "exact-replay"}]
Baseline(id) ==
  [version |-> 1, semantics |-> 1, identity |-> 1, from |-> Absent, to |-> <<1, 1>>,
   class |-> "compatible_without_historical_result_change", changed |-> {},
   proofs |-> IF id = "prng" THEN Required1.prng ELSE Required1.response,
   treatments |-> [d \in {"seeded_results"} |-> "compatible_without_action"]]
Next2(id, class, surface, treatment) ==
  [version |-> 2, semantics |-> 2, identity |-> 2, from |-> <<1, 1>>, to |-> <<2, 2>>,
   class |-> class, changed |-> {surface},
   proofs |-> IF id = "prng" THEN Required1.prng ELSE Required1.response,
   treatments |-> [d \in {"seeded_results"} |-> treatment]]

Authority(components, fingerprints, version) ==
  [components |-> components,
   proofs |-> [p \in Proof |-> [version |-> version, fingerprint |-> fingerprints[p]]]]

Part(id, releases, dependencies) ==
  [version |-> LastOf(releases).version, dependencies |-> dependencies, releases |-> releases,
   required |-> IF id = "prng" THEN Required1.prng ELSE Required1.response,
   affected |-> {"seeded_results"},
   surfaces |-> IF id = "prng" THEN {"prng_algorithm"} ELSE {"canonical_response_shape"}]

Parts(prng, response) ==
  "prng" :> Part("prng", prng, {}) @@
  "canonical-response" :> Part("canonical-response", response, {<<"prng", LastOf(prng).version>>})

Semantics(prng, response) == "prng" :> prng @@ "canonical-response" :> response
Accepted == <<Baseline("prng")>>
Shape(treatment) ==
  <<Baseline("canonical-response"),
    Next2("canonical-response", "serialized_shape_change", "canonical_response_shape", treatment)>>
Stream == <<Baseline("prng"), Next2("prng", "pseudo_random_stream_change", "prng_algorithm", "invalidation")>>

With(src, authority) ==
  [f \in DOMAIN src \cup {"authority"} |-> IF f = "authority" THEN authority ELSE src[f]]

Accept(src, components, version) ==
  With(src, Authority(components, Documents(src), version))

(* The authority lists the proofs of a corpus that cannot be replayed. *)
Again(src) == Accept(src, src.authority.components, 1)

Good == Accept(Tree(Old, Semantics(1, 1)), Parts(Accepted, <<Baseline("canonical-response")>>), 1)

(* Engines, corpus and component have changed together, with a release ...   *)
Released(treatment) ==
  Accept(Tree(New, Semantics(1, 2)), Parts(Accepted, Shape(treatment)), 2)

(* ... of a component that another one depends on. *)
StreamReleased ==
  Accept(Tree(New, Semantics(2, 1)), Parts(Stream, <<Baseline("canonical-response")>>), 2)

Sources(good, released, rewritten, streamReleased) ==
  [good |-> good, released |-> released, rewritten |-> rewritten, streamReleased |-> streamReleased,
   silent |-> With(Tree(New, Semantics(1, 2)), good.authority),
   tsDrift |-> [good EXCEPT !.typescript.results = Lacking, !.measures.rate.high = 30],
   batchDrift |-> [good EXCEPT !.python.results[125] = New],
   probe |-> [good EXCEPT !.typescript.accepts.zeros = TRUE],
   raising |-> [good EXCEPT !.python.results[2048]["risk-p50-zero-absent"] = Raised],
   cohort |-> [good EXCEPT !.python.results[1000]["risk-p50-zero-absent"] = Raised],
   diverging |-> [good EXCEPT !.measures.cdf.effect = 100, !.measures.cdf.extreme = 0],
   inconclusive |-> [good EXCEPT !.measures.cdf.radius = 40],
   calibration |-> [good EXCEPT !.files["distribution_calibration"] = "stale"],
   corpus |-> [good EXCEPT !.corpus.valid = FALSE],
   coverage |-> Again([good EXCEPT !.corpus.traits["risk-p50-zero-absent"] = {}]),
   geometry |-> Again([good EXCEPT !.corpus.sims["risk-p50-zero-absent"] = 2000]),
   protocol |-> [good EXCEPT !.protocol.permutations = 30],
   policy |-> [good EXCEPT !.policy = FALSE],
   authority |-> [good EXCEPT !.authority = Absent]]

MCSource == Sources(Good, Released("invalidation"), Released("purge"), StreamReleased)

StartsOf(sources) ==
  {<<sources[s], sources.good>> : s \in DOMAIN sources}
    \cup {<<sources.rewritten, sources.released>>, <<sources.released, sources.authority>>}
EditsOf(sources) ==
  {<<sources.good, sources.tsDrift>>, <<sources.tsDrift, sources.good>>,
   <<sources.good, sources.released>>, <<sources.streamReleased, sources.released>>}

MCStarts == StartsOf(MCSource)
MCEdits == EditsOf(MCSource)
=============================================================================
