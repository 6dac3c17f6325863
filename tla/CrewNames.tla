------------------------------- MODULE CrewNames -------------------------------
(* The crew in a job folder's name.  A folder that is given to a customer is  *)
(* renamed {date}_{guest}_TA_{tandemmaster}_V_{videospringer}_{dropzone}; the *)
(* crew is predicted from the name it had, and the operator may correct it.   *)
(* A folder may be renamed again, for the same customer or another, so the    *)
(* names the program builds are also names it reads (model/folder_rename.rs,  *)
(* model/id_assign.rs, model/crew.rs).                                        *)
(*                                                                            *)
(* A name is the sequence of its tokens; the splitting of a name into tokens, *)
(* spelling variants, confidence values and review reasons are left out.      *)
EXTENDS Sequences, SequencesExt

CONSTANTS Roster,     \* the crew: sequence of [name, tm, vs, aliases]
          Words,      \* tokens that are neither crew nor a marker
          Guests,     \* the customers: sets of the tokens of their names
          MaxTokens   \* bound: tokens of the first name

VARIABLES tokens,     \* the folder's name
          guest,      \* the customer whose folder it becomes
          outside     \* whether an outside video was booked

vars == <<tokens, guest, outside>>

None == "none"
CrewTokens == {Roster[i].name : i \in DOMAIN Roster}
              \cup UNION {Roster[i].aliases : i \in DOMAIN Roster}
Tokens == {"TA", "V", "G", "C", "load"} \cup Words \cup CrewTokens

matches_token(c, t) == t = c.name \/ t \in c.aliases

is_noise_token(t) == t = "load"
Skipped(t) == is_noise_token(t) \/ t \in {"G", "C", "TA", "V"}

(* The last dropzone token anywhere in the name.                              *)
dropzone_from_token(ts) ==
    LET i == SelectLastInSeq(ts, LAMBDA t : t \in {"G", "C"})
    IN  IF i = 0 THEN None ELSE ts[i]

Structured(ts) == \E i \in DOMAIN ts : ts[i] = "TA"

(* Mutant of the next: the crew is looked for in the whole name.              *)
WholeName(ts, g) == {i \in DOMAIN ts : ~Skipped(ts[i]) /\ ts[i] \notin g}

(* Where crew may stand: behind the first TA or TD, and there also under the  *)
(* guest's name; without one anywhere but under the guest's.                  *)
CrewZone(ts, g) ==
    {i \in DOMAIN ts :
        /\ ~Skipped(ts[i])
        /\ IF Structured(ts) THEN \E k \in 1..(i - 1) : ts[k] = "TA"
           ELSE ts[i] \notin g}

(* The hits, each a place in the name and one in the roster, in the order of  *)
(* the name and where a token is of several, in that of the roster.           *)
Hits(ts, g) ==
    {h \in CrewZone(ts, g) \X DOMAIN Roster : matches_token(Roster[h[2]], ts[h[1]])}

Precedes(h, k) == h[1] < k[1] \/ (h[1] = k[1] /\ h[2] < k[2])
Who(h) == Roster[h[2]]

First(hits) ==
    IF hits = {} THEN None
    ELSE Who(CHOOSE h \in hits : \A k \in hits \ {h} : Precedes(h, k)).name

(* The first who may be tandemmaster.                                         *)
pick_tandemmaster(hits) == First({h \in hits : Who(h).tm})

(* One who may be videospringer and is not the tandemmaster; where the name   *)
(* has a TA or V the first behind the tandemmaster, if there is one.          *)
pick_videospringer(hits, tm, preferAfter) ==
    LET vs == {h \in hits : Who(h).vs /\ Who(h).name # tm}
        behind(h) == \E t \in hits : /\ Who(t).name = tm
                                     /\ \A k \in hits : Who(k).name = Who(h).name
                                                         => Precedes(t, k)
        after == {h \in vs : tm = None \/ behind(h)}
    IN  First(IF preferAfter /\ after # {} THEN after ELSE vs)

predict_from_folder_name(ts, g) ==
    LET hits == Hits(ts, g)
        tm == pick_tandemmaster(hits)
    IN  [tm |-> tm,
         vs |-> pick_videospringer(hits, tm, \E i \in DOMAIN ts : ts[i] \in {"TA", "V"}),
         dz |-> dropzone_from_token(ts)]

(* What the operator confirms replaces the whole prediction.                  *)
resolve_crew_fields(ts, g, override) ==
    IF override = <<>> THEN predict_from_folder_name(ts, g) ELSE override[1]

(* The date is read as noise.                                                 *)
build_job_folder_name(g, crew, out) ==
    <<"load">> \o SetToSeq(g)
    \o (IF crew.tm = None THEN <<>> ELSE <<"TA", crew.tm>>)
    \o (IF out /\ crew.vs # None THEN <<"V", crew.vs>> ELSE <<>>)
    \o (IF crew.dz = None THEN <<>> ELSE <<crew.dz>>)

Overrides ==
    {<<>>} \cup {<<[tm |-> t, vs |-> v, dz |-> z]>> :
        t \in {None} \cup {Roster[i].name : i \in {j \in DOMAIN Roster : Roster[j].tm}},
        v \in {None} \cup {Roster[i].name : i \in {j \in DOMAIN Roster : Roster[j].vs}},
        z \in {None, "G", "C"}}

Rename(override) ==
    /\ tokens' = build_job_folder_name(guest,
                     resolve_crew_fields(tokens, guest, override), outside)
    /\ UNCHANGED <<guest, outside>>

Init ==
    /\ tokens \in UNION {[1..n -> Tokens] : n \in 1..MaxTokens}
    /\ guest \in Guests /\ outside \in BOOLEAN

Next == \E override \in Overrides : Rename(override)

(* A name the program has built is read back as it was meant: given a         *)
(* tandemmaster, the crew of the confirmed fields is predicted from the new   *)
(* name, also for a guest who is called like one of the crew                  *)
(* (predict_from_folder_name against build_job_folder_name).  Of every step.  *)
CrewReadBack ==
    \A override \in Overrides :
       LET crew == resolve_crew_fields(tokens, guest, override)
           again == predict_from_folder_name(tokens', guest)
       IN  Rename(override) /\ crew.tm \notin {None, crew.vs} =>
             /\ again.tm = crew.tm
             /\ outside => again.vs = crew.vs
=============================================================================
