------------------------------- MODULE MediaFlags -------------------------------
(* What a customer booked and paid, as the marker of a job folder or the      *)
(* answer of the customer API says it (model/marker.rs, cloud/custom_api/     *)
(* orders.rs).  The answer has no one shape: a media code, nested objects     *)
(* under several names, a payment method in place of a truth value.           *)
(*                                                                            *)
(* A JSON value is a record with its kind in `is'.  Keys that the code treats *)
(* alike (foto/photo, handycam/handcam, gebucht/booked/aktiv ...) are one key *)
(* here, upper and lower case are one, a number is a truth value, and an      *)
(* object in an object in an object does not occur.                           *)
EXTENDS Naturals, Sequences, SequencesExt

CONSTANTS Markers,    \* [ids, type, contact, extra]: what a marker file has
          Answers     \* [outer, customer]: objects the customer API answers

VARIABLES marker,     \* the marker of the job
          service,    \* the service selected for uploads
          tries,      \* lookups of the share link made, of at most two
          phase,      \* "read", "lookup", "known", "failed"
          answer,     \* the payload the lookup returned
          kunde       \* [booked, paid]: sets of products

vars == <<marker, service, tries, phase, answer, kunde>>

Families == {"handcam", "outside"}
Media == {"foto", "video"}
Products == Families \X Media

(* The kinds: "absent", "null", "yes", "no", "word" (a payment method such as *)
(* "Bar"), "code" with its products ("hc_fv"; "none" has none of them), "art" *)
(* with its media ("foto", "fv"), "typ" with its family, and "object".        *)
Absent == [is |-> "absent", family |-> {}]
Yes == [is |-> "yes"]
No == [is |-> "no"]
Object(of) == [is |-> "object", of |-> of]

At(v, k) == IF v.is = "object" /\ k \in DOMAIN v.of THEN v.of[k] ELSE Absent
Or(v, w) == IF v = Absent THEN w ELSE v
OrElse(a, b) == IF a = {} THEN b ELSE a           \* of options: {} or a singleton
FirstOf(vs) == FoldRight(LAMBDA v, w : Or(v, w), vs, Absent)

------------------------------------------------------------------------------
(* Values.                                                                    *)

parse_bool_value(v) == v = Yes

PaidScalar(v) ==
    CASE v.is \in {"absent", "null", "object"} -> {}
      [] v.is = "no"   -> {FALSE}
      [] v.is = "code" -> {v.products # {}}
      [] OTHER         -> {TRUE}

parse_paid_value(v) ==
    IF v.is = "object" THEN PaidScalar(Or(At(v, "bezahlt"), At(v, "paid")))
    ELSE PaidScalar(v)

parse_booked_product(v) ==
    \/ v = Yes
    \/ v.is = "object" /\ (At(v, "gebucht").is \in {"absent", "null"} \/ At(v, "gebucht") = Yes)

value_as_option_code(v) ==
    LET text(w) == IF w.is \in {"word", "code", "art"} THEN w ELSE Absent
    IN  IF v.is = "object" THEN text(Or(At(v, "code"), At(v, "art"))) ELSE text(v)

art_to_foto_video(v) ==
    CASE v.is = "art"  -> v.media
      [] v.is = "code" -> {p[2] : p \in v.products}
      [] OTHER         -> {}

PaidKey == [foto |-> "foto_paid", video |-> "video_paid"]

(* The media an object names and whether they are paid, of no family yet.     *)
extract_foto_video_paid(o) ==
    LET art    == art_to_foto_video(FirstOf(<<value_as_option_code(At(o, "art")),
                                              value_as_option_code(At(o, "media_option"))>>))
        list   == At(o, "bezahlt")
        listed(m) == At(list, m)
        named(m)  == parse_paid_value(At(o, PaidKey[m]))
        booked == {m \in Media : \/ m \in art
                                 \/ parse_booked_product(At(o, m))
                                 \/ parse_booked_product(listed(m))
                                 \/ parse_paid_value(listed(m)) = {TRUE}
                                 \/ named(m) = {TRUE}}
        own(m) == IF At(o, m).is = "object" THEN parse_paid_value(At(o, m)) ELSE {}
        all    == OrElse(IF list.is = "object" THEN {} ELSE parse_paid_value(list),
                         IF At(o, "paid").is = "object" THEN {}
                         ELSE parse_paid_value(At(o, "paid")))
    IN  [booked |-> booked,
         paid   |-> [m \in Media |->
                        OrElse(OrElse(named(m), OrElse(parse_paid_value(listed(m)), own(m))),
                               IF m \in booked THEN all ELSE {})]]

------------------------------------------------------------------------------
(* The answer of the customer API.                                            *)

Flat == {"typ", "media", "foto", "video", "bezahlt", "media_option"}

(* Fields that the service put beside the customer object.                    *)
customer_object_from_payload(a) ==
    Object([k \in DOMAIN a.customer.of \cup Flat |->
              IF k \in Flat THEN Or(At(a.customer, k), At(a.outer, k)) ELSE At(a.customer, k)])

(* The objects that are looked through, in this order.  What is no object is   *)
(* left out, which here is a source that has nothing.                         *)
api_media_sources(c) ==
    LET nested(k) == IF At(c, k).is = "object" THEN At(c, k) ELSE Absent
    IN  <<c, nested("media"), nested("media_option"), nested("handcam"), nested("outside")>>

(* The flags after a loop over the sources.                                   *)
Each(step(_, _), flags, sources) ==
    LET after[i \in 0 .. Len(sources)] ==
            IF i = 0 THEN flags ELSE step(after[i - 1], sources[i])
    IN  after[Len(sources)]

family_from_typ(c) == At(c, "typ").family

family_from_media_toggles(o) ==
    LET toggle(f) == IF At(o, f).is \in {"absent", "object"} THEN {}
                     ELSE {parse_bool_value(At(o, f))}
    IN  {f \in Families : toggle(f) = {TRUE} /\ \A g \in Families \ {f} : toggle(g) # {TRUE}}

apply_code_flags(flags, code, paid) ==
    [booked |-> flags.booked \cup code.products,
     paid   |-> flags.paid \cup (IF paid = {FALSE} THEN {} ELSE code.products)]

(* Mutant of the next: what is paid is set without asking what is booked.     *)
PaidUnasked(flags, f, fv) ==
    [booked |-> flags.booked \cup ({f} \X fv.booked),
     paid   |-> (flags.paid \ {<<f, m>> : m \in {n \in Media : fv.paid[n] = {FALSE}}})
                \cup {<<f, m>> : m \in {n \in Media : fv.paid[n] = {TRUE}}}]

apply_family_flags(flags, f, fv) ==
    [booked |-> flags.booked \cup ({f} \X fv.booked),
     paid   |-> (flags.paid \ {<<f, m>> : m \in {n \in fv.booked : fv.paid[n] = {FALSE}}})
                \cup {<<f, m>> : m \in {n \in fv.booked : fv.paid[n] = {TRUE}}}]

CodeOf(o) ==
    FirstOf([i \in 1..3 |->
               LET v == value_as_option_code(At(o, <<"media", "media_option", "art">>[i]))
               IN  IF v.is = "code" THEN v ELSE Absent])

(* The eight truth values under names of their own, here the entries of two   *)
(* objects "is_booked" and "is_paid".                                         *)
Explicit(flags, o) ==
    LET given(k, p) == At(At(o, k), p)
        set(k, p, truth, old) == IF given(k, p) = Absent THEN p \in old ELSE truth
    IN  [booked |-> {p \in Products : set("is_booked", p,
                        parse_bool_value(given("is_booked", p)), flags.booked)},
         paid   |-> {p \in Products : set("is_paid", p,
                        parse_paid_value(given("is_paid", p)) = {TRUE}, flags.paid)}]

CodeFlags(flags, o) ==
    IF CodeOf(o) = Absent THEN flags
    ELSE apply_code_flags(flags, CodeOf(o),
                          parse_paid_value(Or(At(o, "bezahlt"), At(o, "paid"))))

(* The customer's family: by the type, or by the first source with a toggle.  *)
FamilyOf(c) ==
    OrElse(family_from_typ(c),
           FoldLeft(LAMBDA f, o : OrElse(f, family_from_media_toggles(o)), {},
                    api_media_sources(c)))

FamilyFlags(family, flags, o) ==
    IF family = {} THEN flags
    ELSE apply_family_flags(flags, CHOOSE f \in family : TRUE, extract_foto_video_paid(o))

NestedFlags(c, flags, f) ==
    apply_family_flags(apply_family_flags(flags, f, extract_foto_video_paid(At(c, f))),
                       f, extract_foto_video_paid(At(At(c, "media"), f)))

apply_api_customer_media_flags(c) ==
    LET sources  == api_media_sources(c)
        byCode   == Each(CodeFlags, [booked |-> {}, paid |-> {}], sources)
        byFamily == Each(LAMBDA flags, o : FamilyFlags(FamilyOf(c), flags, o), byCode, sources)
        byName   == NestedFlags(c, NestedFlags(c, byFamily, "handcam"), "outside")
    IN  Each(Explicit, byName, sources)

------------------------------------------------------------------------------
(* Markers.                                                                   *)

has_api_lookup_fields(m) == m.ids # "none"

is_pure_contact_marker(m) ==
    /\ m.contact = "full"
    /\ m.ids = "none" /\ m.type = "none" /\ m.extra = {}

should_use_dropbox_client_for_marker(s, m) == s = "custom_api" /\ is_pure_contact_marker(m)

Blank == [booked |-> {}, paid |-> {}]

Init ==
    /\ marker \in Markers /\ service \in {"dropbox", "custom_api"}
    /\ tries = 0 /\ phase = "read" /\ answer = {} /\ kunde = Blank

(* build_kunde_from_marker: the eight truth values are the marker's own.      *)
build_kunde_from_marker ==
    /\ phase = "read" /\ ~has_api_lookup_fields(marker)
    /\ IF marker.contact = "full"
       THEN phase' = "known" /\ kunde' = [booked |-> marker.extra, paid |-> {}]
       ELSE phase' = "failed" /\ UNCHANGED kunde
    /\ UNCHANGED <<marker, service, tries, answer>>

(* A lookup needs the type of the product as well as the two numbers.         *)
parse_api_marker_data ==
    /\ phase = "read" /\ has_api_lookup_fields(marker)
    /\ phase' = IF marker.type = "none" THEN "failed" ELSE "lookup"
    /\ UNCHANGED <<marker, service, tries, answer, kunde>>

fetch_customer_payload ==
    /\ phase = "lookup" /\ answer = {}
    /\ \/ \E a \in Answers : answer' = {a} /\ UNCHANGED phase
       \/ phase' = "failed" /\ UNCHANGED answer    \* no token, no answer, an HTTP error
    /\ UNCHANGED <<marker, service, tries, kunde>>

build_kunde_from_customer ==
    /\ phase = "lookup"
    /\ \E a \in answer :
         kunde' = apply_api_customer_media_flags(customer_object_from_payload(a))
    /\ phase' = "known"
    /\ UNCHANGED <<marker, service, tries, answer>>

(* The customer's page is asked for under the number, then with Fallback; a   *)
(* first answer with a link ends it.                                          *)
lookup_customer_url ==
    /\ phase = "known" /\ answer # {} /\ tries < 2
    /\ \E link \in BOOLEAN : tries' = IF link THEN 2 ELSE tries + 1
    /\ UNCHANGED <<marker, service, phase, answer, kunde>>

Next == \/ build_kunde_from_marker \/ parse_api_marker_data \/ fetch_customer_payload
        \/ build_kunde_from_customer \/ lookup_customer_url

Spec == Init /\ [][Next]_vars

------------------------------------------------------------------------------
(* Properties.                                                                *)

GivenOneByOne(a) ==
    LET sources == api_media_sources(customer_object_from_payload(a))
    IN  \E i \in DOMAIN sources, k \in {"is_booked", "is_paid"} : At(sources[i], k) # Absent

(* Whatever the shape of the answer, a product is paid only where it is       *)
(* booked, unless the service gives the eight values one by one: a paid       *)
(* product that is not booked would have its original delivered unasked.      *)
PaidIsBooked ==
    \A a \in answer : ~GivenOneByOne(a) => kunde.paid \subseteq kunde.booked

(* A medium the answer names beside the customer's product type, in the       *)
(* customer object, in its media object or next to it, is booked as a product *)
(* of that type; none is lost on the way through the shapes.                  *)
NamedIsBooked ==
    \A a \in answer : phase = "known" /\ ~GivenOneByOne(a) =>
      \A f \in Or(At(a.customer, "typ"), At(a.outer, "typ")).family, m \in Media :
        Yes \in {Or(At(a.customer, m), At(a.outer, m)), At(At(a.customer, "media"), m)}
        => <<f, m>> \in kunde.booked

(* A marker for which the Dropbox client stands in for the Custom API is one  *)
(* that needs no customer API: the job never waits for, or fails on, it.      *)
RoutedNeedsNoLookup ==
    should_use_dropbox_client_for_marker(service, marker) => phase \in {"read", "known"}

(* No original is delivered unpaid, nothing that was named is lost, and no    *)
(* job waits for a lookup its client cannot make.                             *)
FlagsAreSound == PaidIsBooked /\ NamedIsBooked /\ RoutedNeedsNoLookup
=============================================================================
