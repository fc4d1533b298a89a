------------------------------ MODULE Readiness ------------------------------
(***************************************************************************)
(* Config and Health under names of their own: what a process needs to     *)
(* start, and what it needs to be ready.                                   *)
(***************************************************************************)
EXTENDS Naturals

CONSTANTS Files, Paired             \* of Config
CONSTANTS Probes, MaxTurns          \* of Health

VARIABLES file, extra, explicit, step, active, conf, cause,
          switched, state, turns, probe, ended, result, ready, observed

config == <<file, extra, explicit, step, active, conf, cause>>
health == <<switched, state, turns, probe, ended, result, ready, observed>>

Config == INSTANCE Config
Health == INSTANCE Health WITH enabled <- switched, pc <- probe, seen <- observed
-----------------------------------------------------------------------------
(* What Validate accepts is sound: a process in production runs closed,    *)
(* whatever the profile's file and the environment add, and an accepted    *)
(* configuration starts unless a value does not parse, the identity        *)
(* upstream is missing, or an HTTP upstream without TLS has a client       *)
(* certificate and no key.                                                 *)
AcceptedIsSound == Config!AcceptedIsSound

(* A probe says ready only if each dependency was up at some moment of it, *)
(* and not ready only with a cause within it.                              *)
ReadyIsTrue == Health!ReadyIsTrue
=============================================================================
