----------------------------- MODULE ConfigStack -----------------------------
(***************************************************************************)
(* The option stack (m_config.c).  Every option that is saved has a list   *)
(* of slots, each with the level it was made at; m_config_push adds a slot *)
(* to each, m_config_pop removes those of the current level and sets the   *)
(* option to what is below.  Global options have their first slot only.    *)
(*                                                                         *)
(* Some variables have two options, like -noloop and -loop.  One option    *)
(* here stands for both: the slots are those of the first, and if it is in *)
(* Aliased then playlists set it by the second, the alias, which has no    *)
(* slots but points to the one that the first had when it was registered.  *)
(*                                                                         *)
(* Left out: options with children (they save nothing of their own),       *)
(* M_OPT_OLD (no option has it), parsing, and the rule for options that    *)
(* are parsed early.                                                       *)
(***************************************************************************)
EXTENDS Integers, SequencesExt

CONSTANTS Opts, GlobalOpts, Aliased, Vals, Default

ASSUME OptsAssumption == GlobalOpts \subseteq Opts /\ Aliased \subseteq Opts /\ Default \in Vals

VARIABLES lvl,      \* config->lvl
          slots,    \* co->slots, the oldest first
          value,    \* the variable of the option, *opt->p
          base      \* history: value, when a push last left level 1

config == <<lvl, slots, value, base>>

Saved       == Opts \ GlobalOpts
Slot(l, v)  == [lvl |-> l, val |-> v]
Top(o, v)   == [slots[o] EXCEPT ![Len(slots[o])].val = v]

(* m_config_new and m_config_add_option; the values of level 1 are those   *)
(* of the configuration files and the command line.                        *)
ConfigInit ==
  /\ lvl = 1
  /\ slots = [o \in Opts |-> <<Slot(0, Default), Slot(1, Default)>>]
  /\ value = [o \in Opts |-> Default]
  /\ base = value

(* m_config_push: the newest slot saves the value, and a copy goes on top  *)
OnTop(o) == Append(Top(o, value[o]), Slot(lvl + 1, value[o]))

(* The slot that an option writes: its newest, or, if it is an alias, the  *)
(* one of level 1                                                          *)
Written(o) == IF o \in Aliased \/ o \notin Saved THEN 2 ELSE lvl + 2

(* m_config_push, and m_config_set_option for each of the parameters p     *)
Push(p) ==
  /\ lvl' = lvl + 1
  /\ value' = [o \in Opts |-> IF o \in DOMAIN p THEN p[o] ELSE value[o]]
  /\ slots' = [o \in Opts |->
       LET s == IF o \in Saved THEN OnTop(o) ELSE slots[o]
       IN  IF o \in DOMAIN p THEN [s EXCEPT ![Written(o)].val = p[o]] ELSE s]
  /\ base' = IF lvl = 1 THEN value ELSE base

Freed(o, i) == slots[o][i].lvl >= lvl

(* What is left when the newest are freed, down to one of a lower level    *)
Below(o) ==
  SubSeq(slots[o], 1, CHOOSE i \in DOMAIN slots[o] :
                        ~Freed(o, i) /\ \A j \in DOMAIN slots[o] : j > i => Freed(o, j))

PopKeepsValue ==           \* mutant: the slots go, the variable stays
  /\ lvl' = lvl - 1
  /\ slots' = [o \in Opts |-> IF o \in Saved THEN Below(o) ELSE slots[o]]
  /\ UNCHANGED <<value, base>>

(* m_config_pop                                                            *)
Pop ==
  /\ lvl' = lvl - 1
  /\ slots' = [o \in Opts |-> IF o \in Saved THEN Below(o) ELSE slots[o]]
  /\ value' = [o \in Opts |-> IF o \in Saved /\ Below(o) # slots[o]
                              THEN Last(Below(o)).val ELSE value[o]]
  /\ UNCHANGED base

(* The player changes the variable itself, as the slave commands do        *)
Assign(o, v) == value' = [value EXCEPT ![o] = v] /\ UNCHANGED <<lvl, slots, base>>
=============================================================================
