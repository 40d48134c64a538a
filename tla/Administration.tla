------------------------------ MODULE Administration ------------------------------
(***************************************************************************)
(* The backend module of t3api: AdministrationController answers with a    *)
(* page for one site, the browser loads its scripts, swagger-init.js waits *)
(* for the Swagger bundle and creates the UI, and the UI asks              *)
(* OpenApiController for the specification.                                *)
(*                                                                         *)
(* One backend user has several tabs open, which share what the user has   *)
(* stored in the module data (the site selected last); sites come and go   *)
(* as administrators edit the site configuration.  In a tab the two classic *)
(* scripts run in the order of the document, the module swagger-init.js    *)
(* and the ticks of its interval at any time in between: a script that is  *)
(* still on its way stops the parser, not the timers.                      *)
(***************************************************************************)
EXTENDS Naturals

CONSTANTS
    Tabs,           \* tabs of one backend user
    Sites,          \* identifiers of sites, of existing and of removed ones
    NoSite,         \* no site: nothing in the query, in the module data, ...
    Enhanced,       \* the sites that define the route enhancer of t3api
    Matching        \* the sites SiteService::getCurrent can find for the backend

ASSUME SiteAssumption ==
    /\ NoSite \notin Sites
    /\ Enhanced \subseteq Sites
    /\ Matching \subseteq Sites

VARIABLES
    sites,          \* the sites that exist
    strict,         \* whether warnings are exceptions (exceptionalErrors)
    placement,      \* where the document has the classic scripts
    lastSelected,   \* module data: lastSelectedSiteIdentifier
    page,           \* page[t]: what the tab t shows
    site,           \* site[t]: the site that is active in the menu of the page
    specUrl,        \* specUrl[t]: the site in the element's data-spec-url
    bundle,         \* bundle[t]: swagger-ui-bundle.js
    preset,         \* preset[t]: swagger-ui-standalone-preset.js
    element,        \* element[t]: whether #t3api-swagger-ui has been parsed
    timer,          \* timer[t]: the interval of swagger-init.js
    ui,             \* ui[t]: what has become of the Swagger UI
    created,        \* created[t]: how often the page has called SwaggerUIBundle
    asked,          \* asked[t]: the site the UI asked the specification of
    described       \* described[t]: the site the specification it got is built for

server  == <<sites, strict, placement, lastSelected>>
scripts == <<bundle, preset, element, timer>>
vars    == <<server, page, site, specUrl, scripts, ui, created, asked,
             described>>

Scripts == {"loading", "ready", "failed"}

-----------------------------------------------------------------------------
(* The server *)

(* SiteService::getCurrent; that there is none is an exception. *)
Current == IF Matching \cap sites = {} THEN NoSite
                                       ELSE CHOOSE s \in Matching \cap sites : TRUE

(* Mutant: the stored site is taken without a look at the sites. *)
DefaultSiteStored == IF lastSelected # NoSite THEN lastSelected ELSE Current

(* getDefaultSiteIdentifier: the stored site if it exists still, else the
   current one.  A stored site that is gone is an undefined array key. *)
DefaultSite ==
    IF lastSelected \in sites THEN lastSelected
    ELSE IF lastSelected # NoSite /\ strict THEN NoSite
    ELSE Current

(* A new page: its scripts are requested, and nothing has run. *)
Replace(t, shown, s) ==
    /\ page' = [page EXCEPT ![t] = shown]
    /\ site' = [site EXCEPT ![t] = s]
    /\ specUrl' = [specUrl EXCEPT ![t] = IF shown = "documentation" THEN s ELSE NoSite]
    /\ bundle' = [bundle EXCEPT ![t] = "loading"]
    /\ preset' = [preset EXCEPT ![t] = "loading"]
    /\ element' = [element EXCEPT ![t] = FALSE]
    /\ timer' = [timer EXCEPT ![t] = "none"]
    /\ ui' = [ui EXCEPT ![t] = "none"]
    /\ created' = [created EXCEPT ![t] = 0]
    /\ asked' = [asked EXCEPT ![t] = NoSite]
    /\ described' = [described EXCEPT ![t] = NoSite]
    /\ UNCHANGED <<sites, strict, placement>>

(* documentationAction for the site of the query or the default one.  An
   unknown site is stored before the menu, which needs a Site, refuses it. *)
documentationAction(t, query) ==
    LET s == IF query # NoSite THEN query ELSE DefaultSite
    IN  IF s = NoSite
          THEN Replace(t, "error", NoSite) /\ UNCHANGED lastSelected
          ELSE /\ lastSelected' = s
               /\ IF s \notin sites THEN Replace(t, "error", NoSite)
                  ELSE IF s \notin Enhanced THEN Replace(t, "message", s)
                  ELSE Replace(t, "documentation", s)

(* The module is opened, or a site is selected in the menu (or by an old link). *)
OpenModule(t) == documentationAction(t, NoSite)
SelectSite(t, s) == documentationAction(t, s)

(* An administrator creates or removes a site. *)
ConfigureSite(s) ==
    /\ sites' = IF s \in sites THEN sites \ {s} ELSE sites \cup {s}
    /\ UNCHANGED <<strict, placement, lastSelected, page, site, specUrl, scripts,
                   ui, created, asked, described>>

(* Mutant: resourcesAction takes the site from the module data. *)
SpecSiteStored(t) == lastSelected

(* resourcesAction: the site of the query. *)
SpecSite(t) == specUrl[t]

(* The UI fetches the specification: an unknown site is an exception.  The
   site of the query is put into the global request, but OpenApiBuilder and
   RouteService look at SiteService::getCurrent, which never reads it: the
   specification is that of the current site, which needs the enhancer. *)
resourcesAction(t) ==
    /\ ui[t] = "created"
    /\ asked' = [asked EXCEPT ![t] = SpecSite(t)]
    /\ IF SpecSite(t) \in sites /\ Current \in Enhanced
         THEN /\ ui' = [ui EXCEPT ![t] = "described"]
              /\ described' = [described EXCEPT ![t] = Current]
         ELSE /\ ui' = [ui EXCEPT ![t] = "refused"]
              /\ UNCHANGED described
    /\ UNCHANGED <<server, page, site, specUrl, scripts, created>>

-----------------------------------------------------------------------------
(* The browser *)

Loading(t) == page[t] = "documentation"

Stay == UNCHANGED <<server, page, site, specUrl, asked, described>>

ParseElement(t) ==
    /\ Loading(t)
    /\ ~element[t]
    /\ placement = "head" => bundle[t] # "loading" /\ preset[t] # "loading"
    /\ element' = [element EXCEPT ![t] = TRUE]
    /\ Stay /\ UNCHANGED <<bundle, preset, timer, ui, created>>

(* The classic scripts: one after the other, and each may fail to load. *)
RunBundle(t) ==
    /\ Loading(t)
    /\ bundle[t] = "loading"
    /\ placement = "footer" => element[t]
    /\ \E r \in {"ready", "failed"} : bundle' = [bundle EXCEPT ![t] = r]
    /\ Stay /\ UNCHANGED <<preset, element, timer, ui, created>>

RunPreset(t) ==
    /\ Loading(t)
    /\ bundle[t] # "loading"
    /\ preset[t] = "loading"
    /\ \E r \in {"ready", "failed"} : preset' = [preset EXCEPT ![t] = r]
    /\ Stay /\ UNCHANGED <<bundle, element, timer, ui, created>>

(* swagger-init.js is run: setInterval. *)
RunInit(t) ==
    /\ Loading(t)
    /\ timer[t] = "none"
    /\ timer' = [timer EXCEPT ![t] = "set"]
    /\ Stay /\ UNCHANGED <<bundle, preset, element, ui, created>>

(* The arguments of SwaggerUIBundle are there: the element has a dataset, the
   preset is defined.  Otherwise the callback ends with an exception. *)
CreateUi(t) ==
    IF element[t] /\ preset[t] = "ready"
      THEN /\ ui' = [ui EXCEPT ![t] = "created"]
           /\ created' = [created EXCEPT ![t] = @ + 1]
      ELSE /\ ui' = [ui EXCEPT ![t] = "broken"]
           /\ UNCHANGED created

(* Mutants: setTimeout in place of setInterval; no clearInterval. *)
TickOnce(t) ==
    /\ timer[t] = "set"
    /\ timer' = [timer EXCEPT ![t] = "cleared"]
    /\ IF bundle[t] = "ready" THEN CreateUi(t) ELSE UNCHANGED <<ui, created>>
    /\ Stay /\ UNCHANGED <<bundle, preset, element>>

TickOn(t) ==
    /\ timer[t] = "set"
    /\ bundle[t] = "ready"
    /\ created[t] < 2
    /\ CreateUi(t)
    /\ Stay /\ UNCHANGED <<timer, bundle, preset, element>>

(* checkExist: every 100 ms until the bundle is there. *)
Tick(t) ==
    /\ timer[t] = "set"
    /\ IF bundle[t] = "ready"
         THEN timer' = [timer EXCEPT ![t] = "cleared"] /\ CreateUi(t)
         ELSE UNCHANGED <<timer, ui, created>>
    /\ Stay /\ UNCHANGED <<bundle, preset, element>>

-----------------------------------------------------------------------------
Init ==
    /\ sites = Sites
    /\ strict \in BOOLEAN
    /\ placement \in {"head", "footer"}
    /\ lastSelected = NoSite
    /\ page = [t \in Tabs |-> "closed"]
    /\ site = [t \in Tabs |-> NoSite]
    /\ specUrl = [t \in Tabs |-> NoSite]
    /\ bundle = [t \in Tabs |-> "loading"]
    /\ preset = [t \in Tabs |-> "loading"]
    /\ element = [t \in Tabs |-> FALSE]
    /\ timer = [t \in Tabs |-> "none"]
    /\ ui = [t \in Tabs |-> "none"]
    /\ created = [t \in Tabs |-> 0]
    /\ asked = [t \in Tabs |-> NoSite]
    /\ described = [t \in Tabs |-> NoSite]

Browser(t) ==
    \/ ParseElement(t)
    \/ RunBundle(t)
    \/ RunPreset(t)
    \/ RunInit(t)
    \/ Tick(t)
    \/ resourcesAction(t)

Next ==
    \/ \E t \in Tabs : OpenModule(t) \/ Browser(t)
    \/ \E t \in Tabs, s \in Sites : SelectSite(t, s)
    \/ \E s \in Sites : ConfigureSite(s)

Spec == Init /\ [][Next]_vars

(* The interval of a tab goes off again and again.  Neither the user nor the
   administrators have to do anything, nor has a script to arrive. *)
FairSpec == Spec /\ \A t \in Tabs : WF_vars(Tick(t))

-----------------------------------------------------------------------------
(* Properties *)

(* Every variable keeps its type. *)
TypeOK ==
    /\ sites \subseteq Sites
    /\ strict \in BOOLEAN
    /\ placement \in {"head", "footer"}
    /\ lastSelected \in Sites \cup {NoSite}
    /\ page \in [Tabs -> {"closed", "error", "message", "documentation"}]
    /\ site \in [Tabs -> Sites \cup {NoSite}]
    /\ specUrl \in [Tabs -> Sites \cup {NoSite}]
    /\ bundle \in [Tabs -> Scripts]
    /\ preset \in [Tabs -> Scripts]
    /\ element \in [Tabs -> BOOLEAN]
    /\ timer \in [Tabs -> {"none", "set", "cleared"}]
    /\ ui \in [Tabs -> {"none", "broken", "created", "described", "refused"}]
    /\ created \in [Tabs -> {0, 1}]
    /\ asked \in [Tabs -> Sites \cup {NoSite}]
    /\ described \in [Tabs -> Sites \cup {NoSite}]

(* The UI of a tab asks for the site that is active in the menu of this tab,
   whatever site another tab of the user has selected meanwhile; a page that
   shows no documentation asks for nothing; and what is described is a site
   that has the API, even if the one asked for has been removed meanwhile. *)
SpecBelongsToPage ==
    \A t \in Tabs :
        /\ ui[t] \in {"described", "refused"} => asked[t] = site[t]
        /\ page[t] # "documentation" => asked[t] = NoSite
        /\ ui[t] = "described" => described[t] \in Enhanced

(* A page creates its UI at most once, although the interval that creates it
   would go off again; and one that failed to is not tried again. *)
UiCreatedOnce ==
    \A t \in Tabs : /\ created[t] <= 1
                    /\ ui[t] = "broken" => created[t] = 0 /\ timer[t] = "cleared"

(* Opening the module answers with an existing site, the stored one if it is
   still there: that site may have been removed since it was stored, or never
   have existed (an old link stores it before it fails).  Where warnings are
   exceptions this needs that the stored one exists; where nothing is stored,
   that the backend's URL leads to a site. *)
DefaultOpens ==
    [][\A t \in Tabs :
         /\ OpenModule(t)
         /\ \/ lastSelected \in sites
            \/ Matching \cap sites # {} /\ (~strict \/ lastSelected = NoSite)
         => /\ site'[t] \in sites
            /\ lastSelected \in sites => site'[t] = lastSelected]_vars

(* A page on which both scripts, the element and the interval are there gets
   its UI, however early the interval began to look for the bundle: unless
   it looked between the two scripts or before the element (then it is
   broken), or the page is replaced. *)
Complete(t) ==
    /\ bundle[t] = "ready"
    /\ preset[t] = "ready"
    /\ element[t]
    /\ timer[t] # "none"

CompletePageGetsUi ==
    \A t \in Tabs : Complete(t) /\ ui[t] = "none" ~> ~Complete(t) \/ created[t] = 1
================================================================================
