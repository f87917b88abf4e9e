------------------------------ MODULE Pictures ------------------------------
(***************************************************************************)
(* The pictures of one document (a service, a specialist, a seminar, a     *)
(* product, a page of the salon), which are kept at Cloudinary: utils/     *)
(* cloudinary.js and the routes that upload, replace and delete them.      *)
(*                                                                         *)
(* A route is a plan of steps with an await in front of each.  Some upload *)
(* the new picture first and some delete the old one first; none undoes    *)
(* what it did when a later step fails.  A document has a main picture     *)
(* and, some kinds, a gallery.  The two images of a hero section and the   *)
(* two of the settings are fields of their own: kinds here.                *)
(*                                                                         *)
(* A form (PATCH, PUT) sends the pictures it was loaded with back to the   *)
(* server.  Files on the server's own disk are left out, and the settings  *)
(* exist, as they do since the sign-up.                                    *)
(***************************************************************************)
EXTENDS Naturals, Sequences, FiniteSets

CONSTANTS
  Editors,    \* requests that are being served
  Images,     \* public ids at Cloudinary
  NoImage     \* no picture

ASSUME ImageAssumption == NoImage \notin Images

VARIABLES
  kind,       \* the kind of the document, constant
  display,    \* the document
  hosted,     \* the pictures Cloudinary has
  editor,     \* request -> its plan, and what it has read and done
  lost        \* history: shown though deleted, since the request that did so
              \* ended without its write, or a form has put it back

pictureVars == <<kind, display, hosted, editor, lost>>

Kinds == {"service", "specialist", "seminar", "product", "center", "right",
          "salon hero", "products hero", "about"}

PlanSteps == {"read", "upload", "remove", "set main", "clear main", "push",
              "append", "splice", "erase", "send back"}

Displays == [alive : BOOLEAN, main : Images \cup {NoImage}, gallery : SUBSET Images]

\* doomed: what it will delete; gone: what it has deleted; new: what it has
\* uploaded; strict: a deletion that fails ends it; current: its copy still has
\* the stored __v.
EditorStates == [
  plan : Seq(PlanSteps), wants : {"main", "one", "all"}, strict : BOOLEAN, copy : Displays, current : BOOLEAN,
  doomed : SUBSET Images, gone : SUBSET Images, new : Images \cup {NoImage}]

\* Type invariant.
PictureTypeOK ==
  /\ kind \in Kinds
  /\ display \in Displays
  /\ hosted \in SUBSET Images /\ lost \in SUBSET Images
  /\ editor \in [Editors -> EditorStates]

NoDisplay == [alive |-> FALSE, main |-> NoImage, gallery |-> {}]

IdleEditor == [plan |-> <<>>, wants |-> "main", strict |-> FALSE, copy |-> NoDisplay,
               current |-> FALSE, doomed |-> {}, gone |-> {}, new |-> NoImage]

PictureInit ==
  /\ kind \in Kinds
  /\ display = [NoDisplay EXCEPT !.alive = TRUE]
  /\ hosted = {} /\ lost = {}
  /\ editor = [h \in Editors |-> IdleEditor]

-----------------------------------------------------------------------------
(* The routes                                                              *)

Route(kinds, plan) == [kinds |-> kinds, plan |-> plan, wants |-> "main", strict |-> FALSE]

\* POST /services/:id/upload-image, /upload-gallery; PATCH and DELETE.
ServiceImage == Route({"service"}, <<"read", "upload", "remove", "set main">>)
ServiceGallery == Route({"service"}, <<"read", "upload", "push">>)
ServiceForm == Route({"service"}, <<"read", "send back">>)
ServiceErase == Route({"service"}, <<"erase">>)

\* POST /specialists/:id/upload-image; PATCH and DELETE.
SpecialistImage == Route({"specialist"}, <<"read", "remove", "upload", "set main">>)
SpecialistForm == Route({"specialist"}, <<"read", "send back">>)
SpecialistErase == Route({"specialist"}, <<"erase">>)

\* controllers/seminarController.js; one that is booked is not deleted.
SeminarImage == Route({"seminar"}, <<"read", "remove", "upload", "set main">>)
SeminarGallery == Route({"seminar"}, <<"read", "upload", "push">>)
SeminarForm == Route({"seminar"}, <<"read", "send back">>)
SeminarErase == Route({"seminar"}, <<"read", "erase">>)

\* routes/products.js; a deletion that fails is not caught.
Strict(route, wants) == [route EXCEPT !.strict = TRUE, !.wants = wants]

ProductImage == Strict(Route({"product"}, <<"read", "remove", "upload", "set main">>), "main")
ProductGallery == Route({"product"}, <<"read", "upload", "append">>)
ProductDrop == Strict(Route({"product"}, <<"read", "remove", "splice">>), "one")
ProductErase == Strict(Route({"product"}, <<"read", "remove", "erase">>), "all")
ProductForm == Route({"product"}, <<"read", "send back">>)

\* routes/heroSections.js
CenterImage == Route({"center"}, <<"read", "upload", "remove", "set main">>)
RightImage == Route({"right"}, <<"read", "upload", "remove", "set main">>)
HeroErase == Route({"center", "right"}, <<"read", "remove", "erase">>)
HeroForm == Route({"center", "right"}, <<"read", "send back">>)

\* routes/settings.js: the document is read behind the upload.
SalonHero == Route({"salon hero"}, <<"upload", "read", "remove", "set main">>)
ProductsHero == Route({"products hero"}, <<"upload", "read", "remove", "set main">>)
SettingsForm == Route({"salon hero"}, <<"read", "send back">>)

\* routes/aboutUs.js: PUT with a file and without, and DELETE.
AboutImage == Route({"about"}, <<"read", "remove", "upload", "set main">>)
AboutKeep == Route({"about"}, <<"read", "send back">>)
AboutClear == Strict(Route({"about"}, <<"read", "remove", "clear main">>), "main")

Routes == {
  ServiceImage, ServiceGallery, ServiceForm, ServiceErase,
  SpecialistImage, SpecialistForm, SpecialistErase,
  SeminarImage, SeminarGallery, SeminarForm, SeminarErase,
  ProductImage, ProductGallery, ProductDrop, ProductErase, ProductForm,
  CenterImage, RightImage, HeroErase, HeroForm,
  SalonHero, ProductsHero, SettingsForm, AboutImage, AboutKeep, AboutClear}

-----------------------------------------------------------------------------

Shown == IF display.alive THEN ({display.main} \cup display.gallery) \ {NoImage} ELSE {}

\* What is shown or, by a copy, may be shown again.
Remembered == Shown \cup UNION {editor[h].copy.gallery : h \in Editors}

\* With nothing left to delete that step is passed over.
StepsLeft(e) ==
  IF e.plan # <<>> /\ Head(e.plan) = "remove" /\ e.doomed = {} THEN Tail(e.plan) ELSE e.plan

At(h, step) == StepsLeft(editor[h]) # <<>> /\ Head(StepsLeft(editor[h])) = step

\* Pictures nobody knows: their ids are as good as new.
Unknown ==
  Images \ (hosted \cup Shown \cup UNION {
    {editor[h].new, editor[h].copy.main} \cup editor[h].copy.gallery \cup editor[h].gone : h \in Editors})

Ask(h) ==
  /\ editor[h].plan = <<>>
  /\ \E route \in Routes :
       /\ kind \in route.kinds
       /\ editor' = [editor EXCEPT ![h] = [IdleEditor EXCEPT
            !.plan = route.plan, !.wants = route.wants, !.strict = route.strict]]
  /\ UNCHANGED <<kind, display, hosted, lost>>

\* What the route is going to delete of the document it has read.
Doomed(e) ==
  CASE e.wants = "main" -> {{display.main} \ {NoImage}}
    [] e.wants = "one"  -> {{i} : i \in display.gallery}
    [] e.wants = "all"  -> {({display.main} \cup display.gallery) \ {NoImage}}

\* The document is found.
ReadDisplay(h) ==
  /\ At(h, "read") /\ display.alive
  /\ \E doomed \in Doomed(editor[h]) :
       editor' = [editor EXCEPT ![h].plan = Tail(@), ![h].copy = display, ![h].current = TRUE,
                                ![h].doomed = doomed]
  /\ UNCHANGED <<kind, display, hosted, lost>>

\* uploadImage: every picture gets an id of its own (unique_filename).
Upload(h) ==
  /\ At(h, "upload")
  /\ \E new \in Unknown :
       /\ hosted' = hosted \cup {new}
       /\ editor' = [editor EXCEPT ![h].new = new, ![h].plan = Tail(StepsLeft(editor[h]))]
  /\ UNCHANGED <<kind, display, lost>>

\* deleteImage, one await for each picture; an error is logged, and the
\* picture may be there still.  Cloudinary does not mind one it has not.
Remove(h) ==
  /\ At(h, "remove")
  /\ \E i \in editor[h].doomed : \E deleted \in {{i}} \cup (IF editor[h].strict THEN {} ELSE {{}}) :
       /\ hosted' = hosted \ deleted
       /\ editor' = [editor EXCEPT ![h].doomed = @ \ {i}, ![h].gone = @ \cup deleted]
  /\ UNCHANGED <<kind, display, lost>>

\* The route's last write; the document must be there.  `changed` are the
\* editors whose copies do not have the stored __v any more.
Write(h, step, doc, changed) ==
  /\ At(h, step) /\ display.alive
  /\ display' = doc
  /\ editor' = [e \in Editors |->
       IF e = h THEN IdleEditor ELSE [editor[e] EXCEPT !.current = @ /\ e \notin changed]]
  /\ lost' = (lost \cup (IF step = "send back" THEN Shown' \ hosted ELSE {})) \cap Remembered'
  /\ UNCHANGED <<kind, hosted>>

\* A change of the gallery adds one to __v.
WriteGallery(h, step, gallery) ==
  Write(h, step, [display EXCEPT !.gallery = gallery], Editors)

\* save() and findByIdAndUpdate write the new picture alone.
SetMain(h) == Write(h, "set main", [display EXCEPT !.main = editor[h].new], {})

\* aboutUs.image = undefined; url is required, so the save may be refused.
ClearMain(h) == Write(h, "clear main", [display EXCEPT !.main = NoImage], {})

\* gallery.push is an atomic $push.
PushToGallery(h) == WriteGallery(h, "push", display.gallery \cup {editor[h].new})

\* Mutant: the array as it was read is written whatever became of it.
AppendToAny(h) == WriteGallery(h, "append", editor[h].copy.gallery \cup {editor[h].new})

\* An array that is set as a whole is saved only under the __v that was read.
AppendToGallery(h) ==
  /\ editor[h].current
  /\ WriteGallery(h, "append", editor[h].copy.gallery \cup {editor[h].new})

SpliceGallery(h) ==
  /\ editor[h].current
  /\ WriteGallery(h, "splice", editor[h].copy.gallery \ editor[h].gone)

Erase(h) == Write(h, "erase", NoDisplay, {})

\* A form comes back: the pictures as they were when it was loaded.
SendBack(h) ==
  Write(h, "send back", [display EXCEPT !.main = editor[h].copy.main,
                                      !.gallery = editor[h].copy.gallery], {})

\* A crash, a refused upload, a VersionError, a document that is not there, an
\* error from Cloudinary, which may have deleted the picture all the same.
EditFails(h) ==
  /\ editor[h].plan # <<>>
  /\ UNCHANGED <<kind, display>>
  /\ \E last \in {{}} \cup (IF At(h, "remove") THEN {{i} : i \in editor[h].doomed} ELSE {}) :
       /\ hosted' = hosted \ last
       /\ editor' = [editor EXCEPT ![h] = IdleEditor]
       /\ lost' = (lost \cup editor[h].gone \cup last) \cap Remembered'

-----------------------------------------------------------------------------

PictureNext ==
  \E h \in Editors :
    \/ Ask(h) \/ ReadDisplay(h) \/ Upload(h) \/ Remove(h)
    \/ SetMain(h) \/ ClearMain(h) \/ PushToGallery(h) \/ AppendToGallery(h)
    \/ SpliceGallery(h) \/ Erase(h) \/ SendBack(h) \/ EditFails(h)

PictureSpec == PictureInit /\ [][PictureNext]_pictureVars

-----------------------------------------------------------------------------
(* Properties                                                              *)

\* Visitors see no picture that Cloudinary has not, except while the request
\* that deleted it is about to write, when that request failed behind the
\* deletion, or when a form has put a replaced picture back: no upload takes a
\* picture with it that another request still shows.
ShownIsHosted ==
  Shown \subseteq hosted \cup lost \cup UNION {editor[h].gone : h \in Editors}
=============================================================================
