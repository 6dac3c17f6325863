------------------------------- MODULE MCDesk -------------------------------
(***************************************************************************)
(* The instance of Desk that TLC checks.                                   *)
(***************************************************************************)
EXTENDS Desk, TLC

MCRoster ==
    <<[name |-> "Alberto", tm |-> TRUE, vs |-> FALSE, aliases |-> {}],
      [name |-> "Andy", tm |-> TRUE, vs |-> TRUE, aliases |-> {"Andreas"}],
      [name |-> "Jojo", tm |-> FALSE, vs |-> TRUE, aliases |-> {}],
      [name |-> "Tim", tm |-> TRUE, vs |-> TRUE, aliases |-> {}]>>

MCBefore(a, b) == <<a, b>> \in {<<"p1", "p2">>, <<"f1", "f2">>}

MCMarkers ==
    [ids : {"none", "hash"}, type : {"none", "named"}, contact : {"blank", "full"},
     extra : {{}}]
    \cup [ids : {"none"}, type : {"none"}, contact : {"none", "full"},
          extra : {{<<"outside", "foto">>}}]

JAbsent == [is |-> "absent", family |-> {}]
JNull == [is |-> "null"]
JYes == [is |-> "yes"]
JNo == [is |-> "no"]
JWord == [is |-> "word"]
JTyp(f) == [is |-> "typ", family |-> f]
JObject(of) == [is |-> "object", of |-> of]

(* Shapes of an answer: with the type or not, the media by code, by name,  *)
(* under "media" or under the type's name, paid by word, by truth value or *)
(* one by one, and with the eight truth values.                            *)
MCAnswers ==
    {[outer |-> JObject(o), customer |-> JObject(c)] :
       o \in {[typ |-> JAbsent], [typ |-> JTyp({"outside"}), foto |-> JYes]},
       c \in [typ : {JAbsent, JTyp({"handcam"}), JTyp({})},
              media : {JAbsent, [is |-> "code", products |-> {<<"handcam", "foto">>}],
                       JObject([video |-> JYes]),
                       JObject([foto |-> JObject([bezahlt |-> JWord]), outside |-> JYes]),
                       JObject([bezahlt |-> JObject([foto |-> JWord, video |-> JNo])])},
              bezahlt : {JAbsent, JNo, JWord},
              foto : {JAbsent, JYes, JObject([gebucht |-> JNo, bezahlt |-> JWord])},
              foto_paid : {JAbsent, JNo},
              video_paid : {JNull, JYes},
              handcam : {JAbsent, JYes, JObject([foto |-> JYes])},
              outside : {JAbsent, JObject([video |-> JYes, bezahlt |-> JNo])}]
            \cup {[is_booked |-> JObject(<<"handcam", "foto">> :> b), foto |-> f,
                   typ |-> JTyp({"handcam"})] : b \in {JYes, JNo}, f \in {JYes, JAbsent}}}

MCPicks ==
    [name : {<<1>>, <<1, 1>>}, preview : BOOLEAN,
     cat : {<<"handcam", "foto">>, <<"outside", "foto">>}]
    \cup [name : {<<1>>}, preview : BOOLEAN, cat : {<<"handcam", "video">>}]

MCLastName == [p1 |-> "M", p2 |-> "M"]
MCGuest == [f1 |-> "p1", f2 |-> "M"]
MCLookup == [r1 |-> {"hash", "id"}]

(* The theorems' hypotheses hold here.                                     *)
ASSUME CrewIsPlain == RosterIsPlain /\ GuestsArePlain
ASSUME Sorted == IsFiniteSet(People) /\ IsFiniteSet(Folders) /\ ListsAreSorted
ASSUME Shapes == AccountsApart /\ TypesNameOne /\ PicksShape
ASSUME NobodyIsApart ==
    /\ Nobody \notin Appliers \cup Callers \cup Hosts /\ Unnamed \in Hosts
    /\ Waits \subseteq Nat /\ IsFiniteSet(Jobs)
    /\ {PageSize, Limit, MaxRaw} \subseteq Nat \ {0}
=============================================================================
