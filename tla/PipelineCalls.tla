---------------------------- MODULE PipelineCalls ----------------------------
(***************************************************************************)
(* The calls that run_vazirani_pipeline and run_karp_luby_pipeline make to *)
(* the session, in the blocks that measure() and the breakdown separate.   *)
(***************************************************************************)
EXTENDS Widths, Sequences, SequencesExt

Block(phase, calls) == [phase |-> phase, calls |-> calls]
Gates(phase) == Block(phase, <<"gates">>)
Repeat(n, s) == FlattenSeq([k \in 1..n |-> s])

(***************************************************************************)
(* bits, mask and pad of each cube, ALICE's before BOB's.                  *)
(***************************************************************************)
CubeInputs(cubes) ==
    Block("cube_input_feeding",
          Repeat(cubes, Repeat(3, <<"alice_input">>) \o Repeat(3, <<"bob_input">>)))

RandomInputs ==
    Block("trial_random_input_feeding", <<"alice_input", "bob_input">>)

Trial(algorithm) ==
    <<RandomInputs, Gates("sample_in_range"), Gates("select_cube_index"),
      Gates("cube_at_index"), RandomInputs, Gates("random_assignment")>>
    \o IF algorithm = "vazirani"
       THEN <<Gates("count_satisfied_cubes"), Gates("divide_lookup")>>
       ELSE <<Gates("is_canonical_sample")>>

(***************************************************************************)
(* Mutant: a slice that is not full is left out.                           *)
(***************************************************************************)
SliceBits == 64
Slices_full(width) == width \div SliceBits

(***************************************************************************)
(* reveal_wide: one reveal for every 64 bits that were begun.              *)
(***************************************************************************)
Slices(width) == (width + SliceBits - 1) \div SliceBits

Pipeline(algorithm, cubes, k, width) ==
    <<CubeInputs(cubes), Gates("conjoin_dnf"), Gates("cube_weights"),
      Gates("dnf_weight"), Gates("cube_intervals")>>
    \o Repeat(k, Trial(algorithm))
    \o <<Gates("estimate"), Block("reveal", Repeat(Slices(width), <<"reveal">>))>>
=============================================================================
