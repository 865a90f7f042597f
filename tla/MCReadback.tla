----------------------------- MODULE MCReadback -----------------------------
(* The instance of HaxallReadback that readback.cfg checks. *)
EXTENDS HaxallReadback

CONSTANTS conn, site, fan, ahu, demo

(* Of the four points one, made by hand and fed by a task made here, as    *)
(* Fan Status is; the fixture stands for points made here.                 *)
MCFed == <<fan>>
MCUnfed == <<>>
MCOwn == <<>>
MCEquips == <<ahu>>
MCEquipOf == [d \in {fan} |-> ahu]
=============================================================================
