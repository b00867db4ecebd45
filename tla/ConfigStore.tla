---------------------------- MODULE ConfigStore ----------------------------
(***************************************************************************)
(* What persistent_config promises of the configuration the next boot will *)
(* load.  It changes only when a save commits, and then to the whole       *)
(* configuration that save was asked to store; losing power, or a flash    *)
(* that fails, never leaves a mixture.  The one exception is a save that   *)
(* has to rewrite the sector: until it commits, the configuration may be   *)
(* the default one.                                                        *)
(***************************************************************************)
CONSTANTS Configs, Default, NoConfig

VARIABLES
  stored,     \* what load() would return now
  known,      \* what the program knows to be stored: loaded, or saved
  asked,      \* the configuration being saved, or NoConfig
  rewriting   \* whether that save rewrites the sector

vars == <<stored, known, asked, rewriting>>

Init ==
  /\ stored \in Configs /\ known = Default
  /\ asked = NoConfig /\ rewriting = FALSE

Load ==
  /\ known' = stored
  /\ UNCHANGED <<stored, asked, rewriting>>

\* A save that has something to write begins.
Begin(c, rewrite) ==
  /\ asked = NoConfig
  /\ asked' = c /\ rewriting' = rewrite
  /\ UNCHANGED <<stored, known>>

\* It commits, and is over: from now on the configuration is the one known.
Commit ==
  /\ asked # NoConfig
  /\ stored' = asked /\ known' = asked
  /\ asked' = NoConfig /\ rewriting' = FALSE

\* The sector is wiped for the rewrite.
Wipe ==
  /\ rewriting
  /\ stored' = Default
  /\ UNCHANGED <<known, asked, rewriting>>

\* The save fails or the power goes.
GiveUp ==
  /\ asked # NoConfig
  /\ asked' = NoConfig /\ rewriting' = FALSE
  /\ stored' = stored \/ (rewriting /\ stored' = Default)
  /\ UNCHANGED known

Next ==
  \/ Load
  \/ \E c \in Configs, rewrite \in BOOLEAN : Begin(c, rewrite)
  \/ Commit
  \/ Wipe
  \/ GiveUp

Spec == Init /\ [][Next]_vars
=============================================================================
