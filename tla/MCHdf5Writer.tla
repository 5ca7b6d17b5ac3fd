---------------------------- MODULE MCHdf5Writer ----------------------------
(* Instances of Hdf5Writer for TLC: two agents, chunks of two rows and two  *)
(* offsets, so that a frame starts, ends and straddles a chunk.             *)
EXTENDS Hdf5Writer
MCAgents == 1 .. 2
=============================================================================
