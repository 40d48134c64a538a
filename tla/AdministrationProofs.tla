--------------------------- MODULE AdministrationProofs ---------------------------
(***************************************************************************)
(* Proofs about Administration, for any tabs and sites: the type           *)
(* invariant, that a page creates its UI once, that the UI asks for the    *)
(* site of its own page, and that opening the module finds a site.         *)
(***************************************************************************)
EXTENDS Administration, TLAPS

(* The parts of TypeOK: the server, the page, its scripts, its UI. *)
ServerOK ==
    /\ sites \subseteq Sites
    /\ strict \in BOOLEAN
    /\ placement \in {"head", "footer"}
    /\ lastSelected \in Sites \cup {NoSite}

PageOK ==
    /\ page \in [Tabs -> {"closed", "error", "message", "documentation"}]
    /\ site \in [Tabs -> Sites \cup {NoSite}]
    /\ specUrl \in [Tabs -> Sites \cup {NoSite}]

ScriptsOK ==
    /\ bundle \in [Tabs -> Scripts]
    /\ preset \in [Tabs -> Scripts]
    /\ element \in [Tabs -> BOOLEAN]
    /\ timer \in [Tabs -> {"none", "set", "cleared"}]

UiOK ==
    /\ ui \in [Tabs -> {"none", "broken", "created", "described", "refused"}]
    /\ created \in [Tabs -> {0, 1}]
    /\ asked \in [Tabs -> Sites \cup {NoSite}]
    /\ described \in [Tabs -> Sites \cup {NoSite}]

LEMMA TypeParts == TypeOK <=> ServerOK /\ PageOK /\ ScriptsOK /\ UiOK
  BY DEF TypeOK, ServerOK, PageOK, ScriptsOK, UiOK

(* What makes a page create its UI once: the interval that is still to go off
   has not created it, and one that has gone off does not any more. *)
Once ==
    \A t \in Tabs :
        /\ created[t] = 1 => timer[t] = "cleared"
        /\ ui[t] = "broken" => created[t] = 0 /\ timer[t] = "cleared"

(* What makes it ask for its own site: the element has the site of the page,
   and only a page with an element has an interval and a UI. *)
Own ==
    \A t \in Tabs :
        /\ page[t] = "documentation" => specUrl[t] = site[t]
        /\ page[t] # "documentation" =>
             ui[t] = "none" /\ timer[t] = "none" /\ asked[t] = NoSite
        /\ ui[t] \in {"described", "refused"} => asked[t] = site[t]
        /\ ui[t] = "described" => described[t] \in Enhanced

Inv == TypeOK /\ Once /\ Own

-----------------------------------------------------------------------------
(* The default site is a site or none. *)
LEMMA CurrentType == ASSUME TypeOK PROVE Current \in Sites \cup {NoSite}
<1>1. CASE Matching \cap sites = {}
  BY <1>1 DEF Current
<1>2. CASE Matching \cap sites # {}
  <2>1. \E s \in Matching \cap sites : TRUE
    BY <1>2
  <2>2. Current \in Matching \cap sites
    BY <1>2, <2>1 DEF Current
  <2> QED
    BY <2>2 DEF TypeOK
<1> QED
  BY <1>1, <1>2

LEMMA DefaultSiteType == ASSUME TypeOK PROVE DefaultSite \in Sites \cup {NoSite}
  BY CurrentType DEF TypeOK, DefaultSite

(* A new page keeps the invariant. *)
LEMMA ReplaceInv ==
    ASSUME Inv, NEW t \in Tabs, NEW s \in Sites \cup {NoSite},
           NEW shown \in {"error", "message", "documentation"},
           lastSelected' \in Sites \cup {NoSite},
           Replace(t, shown, s)
    PROVE  Inv'
<1>1. ServerOK'
  BY DEF Replace, Inv, TypeOK, ServerOK
<1>2. PageOK'
  BY DEF Replace, Inv, TypeOK, PageOK
<1>3. ScriptsOK'
  BY DEF Replace, Inv, TypeOK, ScriptsOK, Scripts
<1>4. UiOK'
  BY DEF Replace, Inv, TypeOK, UiOK
<1>5. Once'
  BY DEF Replace, Inv, TypeOK, Once
<1>6. Own'
  BY DEF Replace, Inv, TypeOK, Own
<1> QED
  BY <1>1, <1>2, <1>3, <1>4, <1>5, <1>6, TypeParts, PTL DEF Inv

LEMMA DocumentationInv ==
    ASSUME Inv, NEW t \in Tabs, NEW query \in Sites \cup {NoSite},
           documentationAction(t, query)
    PROVE  Inv'
<1> DEFINE s == IF query # NoSite THEN query ELSE DefaultSite
<1>1. s \in Sites \cup {NoSite}
  BY DefaultSiteType DEF Inv
<1>2. lastSelected' \in Sites \cup {NoSite}
  BY <1>1 DEF documentationAction, Inv, TypeOK
<1>3. \E shown \in {"error", "message", "documentation"}, shownSite \in Sites \cup {NoSite} :
         Replace(t, shown, shownSite)
  BY <1>1 DEF documentationAction
<1> QED
  BY <1>2, <1>3, ReplaceInv

LEMMA InitInv == Init => Inv
<1> SUFFICES ASSUME Init PROVE Inv
  OBVIOUS
<1>1. TypeOK
  BY DEF Init, TypeOK, Scripts
<1>2. Once /\ Own
  BY DEF Init, Once, Own
<1> QED
  BY <1>1, <1>2 DEF Inv

LEMMA NextInv == Inv /\ [Next]_vars => Inv'
<1> SUFFICES ASSUME Inv, [Next]_vars PROVE Inv'
  OBVIOUS
<1> USE DEF Inv
<1>1. CASE UNCHANGED vars
  BY <1>1 DEF vars, server, scripts, TypeOK, Once, Own
<1>2. ASSUME NEW t \in Tabs, OpenModule(t) PROVE Inv'
  BY <1>2, DocumentationInv DEF OpenModule
<1>3. ASSUME NEW t \in Tabs, NEW s \in Sites, SelectSite(t, s) PROVE Inv'
  BY <1>3, DocumentationInv DEF SelectSite
<1>4. ASSUME NEW s \in Sites, ConfigureSite(s) PROVE Inv'
  <2>1. ServerOK'
    BY <1>4 DEF ConfigureSite, TypeOK, ServerOK
  <2>2. PageOK' /\ ScriptsOK' /\ UiOK'
    BY <1>4 DEF ConfigureSite, TypeOK, PageOK, ScriptsOK, UiOK, scripts
  <2>3. Once' /\ Own'
    BY <1>4 DEF ConfigureSite, Once, Own, scripts
  <2> QED
    BY <2>1, <2>2, <2>3, TypeParts, PTL
<1>5. ASSUME NEW t \in Tabs,
             ParseElement(t) \/ RunBundle(t) \/ RunPreset(t) \/ RunInit(t)
      PROVE  Inv'
  <2>1. ServerOK' /\ PageOK' /\ UiOK'
    BY <1>5 DEF ParseElement, RunBundle, RunPreset, RunInit, Stay, server,
                TypeOK, ServerOK, PageOK, UiOK
  <2>2. ScriptsOK'
    <3>1. CASE ParseElement(t)
      BY <3>1 DEF ParseElement, TypeOK, ScriptsOK
    <3>2. CASE RunBundle(t)
      BY <3>2 DEF RunBundle, TypeOK, ScriptsOK, Scripts
    <3>3. CASE RunPreset(t)
      BY <3>3 DEF RunPreset, TypeOK, ScriptsOK, Scripts
    <3>4. CASE RunInit(t)
      BY <3>4 DEF RunInit, TypeOK, ScriptsOK
    <3> QED
      BY <1>5, <3>1, <3>2, <3>3, <3>4
  <2>3. Once'
    BY <1>5 DEF ParseElement, RunBundle, RunPreset, RunInit, TypeOK, Once
  <2>4. Own'
    BY <1>5 DEF ParseElement, RunBundle, RunPreset, RunInit, Stay, Loading, TypeOK, Own
  <2> QED
    BY <2>1, <2>2, <2>3, <2>4, TypeParts, PTL
<1>6. ASSUME NEW t \in Tabs, Tick(t) PROVE Inv'
  <2>1. ServerOK' /\ PageOK'
    BY <1>6 DEF Tick, Stay, server, TypeOK, ServerOK, PageOK
  <2>2. ScriptsOK'
    BY <1>6 DEF Tick, TypeOK, ScriptsOK
  <2>3. created[t] = 0 /\ page[t] = "documentation"
    BY <1>6 DEF Tick, TypeOK, Once, Own
  <2>4. UiOK'
    BY <1>6, <2>3 DEF Tick, CreateUi, Stay, TypeOK, UiOK
  <2>5. Once'
    BY <1>6, <2>3 DEF Tick, CreateUi, TypeOK, Once
  <2>6. Own'
    BY <1>6, <2>3 DEF Tick, CreateUi, Stay, TypeOK, Own
  <2> QED
    BY <2>1, <2>2, <2>4, <2>5, <2>6, TypeParts, PTL
<1>7. ASSUME NEW t \in Tabs, resourcesAction(t) PROVE Inv'
  <2>1. ServerOK' /\ PageOK' /\ ScriptsOK'
    BY <1>7 DEF resourcesAction, server, scripts, TypeOK, ServerOK, PageOK, ScriptsOK
  <2>2. page[t] = "documentation" /\ SpecSite(t) = site[t]
    BY <1>7 DEF resourcesAction, SpecSite, Own
  <2>3. UiOK'
    BY <1>7, <2>2, CurrentType DEF resourcesAction, TypeOK, UiOK
  <2>4. Once'
    BY <1>7 DEF resourcesAction, scripts, TypeOK, Once
  <2>5. Own'
    BY <1>7, <2>2 DEF resourcesAction, scripts, TypeOK, Own
  <2> QED
    BY <2>1, <2>3, <2>4, <2>5, TypeParts, PTL
<1> QED
  BY <1>1, <1>2, <1>3, <1>4, <1>5, <1>6, <1>7 DEF Next, Browser

LEMMA Invariant == Spec => []Inv
  BY InitInv, NextInv, PTL DEF Spec

-----------------------------------------------------------------------------
(* Every variable keeps its type, in particular nothing of a page is left on
   the page that takes its place. *)
THEOREM TypeCorrect == Spec => []TypeOK
<1>1. Inv => TypeOK
  BY DEF Inv
<1> QED
  BY <1>1, Invariant, PTL

(* swagger-init.js creates the UI of a page once, for any number of tabs. *)
THEOREM OneUiPerPage == Spec => []UiCreatedOnce
<1>1. Inv => UiCreatedOnce
  <2> SUFFICES ASSUME Inv, NEW t \in Tabs
               PROVE  /\ created[t] <= 1
                      /\ ui[t] = "broken" => created[t] = 0 /\ timer[t] = "cleared"
    BY DEF UiCreatedOnce
  <2>1. created[t] \in {0, 1}
    BY DEF Inv, TypeOK
  <2> QED
    BY <2>1 DEF Inv, Once
<1> QED
  BY <1>1, Invariant, PTL

(* The UI asks for the site that its own page has in the menu, whatever the
   other tabs select and whatever sites come and go. *)
THEOREM UiAsksForItsPage == Spec => []SpecBelongsToPage
<1>1. Inv => SpecBelongsToPage
  BY DEF Inv, Own, SpecBelongsToPage
<1> QED
  BY <1>1, Invariant, PTL

(* Opening the module finds a site, the stored one if it exists still. *)
THEOREM ModuleOpens == Spec => DefaultOpens
<1> DEFINE Opens ==
      \A t \in Tabs :
         /\ OpenModule(t)
         /\ \/ lastSelected \in sites
            \/ Matching \cap sites # {} /\ (~strict \/ lastSelected = NoSite)
         => /\ site'[t] \in sites
            /\ lastSelected \in sites => site'[t] = lastSelected
<1>1. Inv /\ [Next]_vars => Opens
  <2> SUFFICES ASSUME Inv, NEW t \in Tabs, OpenModule(t),
                      \/ lastSelected \in sites
                      \/ Matching \cap sites # {} /\ (~strict \/ lastSelected = NoSite)
               PROVE  /\ site'[t] \in sites
                      /\ lastSelected \in sites => site'[t] = lastSelected
    OBVIOUS
  <2>1. DefaultSite \in sites
    <3>1. CASE lastSelected \in sites
      BY <3>1 DEF DefaultSite
    <3>2. CASE lastSelected \notin sites
      <4>1. \E s \in Matching \cap sites : TRUE
        BY <3>2
      <4>2. Current \in Matching \cap sites
        BY <4>1 DEF Current
      <4> QED
        BY <3>2, <4>2 DEF DefaultSite
    <3> QED
      BY <3>1, <3>2
  <2>2. DefaultSite # NoSite
    BY <2>1, SiteAssumption DEF Inv, TypeOK
  <2>3. \E shown \in {"message", "documentation"} : Replace(t, shown, DefaultSite)
    BY <2>1, <2>2 DEF OpenModule, documentationAction
  <2>4. site'[t] = DefaultSite
    BY <2>3 DEF Replace, Inv, TypeOK
  <2> QED
    BY <2>1, <2>4 DEF DefaultSite
<1> QED
  BY <1>1, Invariant, PTL DEF Spec, DefaultOpens
================================================================================
