------------------------------- MODULE Works -------------------------------
(***************************************************************************)
(* Saved works and submitted models (routes/worksRoutes.ts). A folder of   *)
(* works has a list of them, index.json; the models have one list, and     *)
(* each a folder with descriptions, credit and meshes. Every request runs  *)
(* without an await, so no two overlap, but a write can fail or be cut,    *)
(* and then leaves its file damaged and the writes after it undone.        *)
(***************************************************************************)
EXTENDS Integers, FiniteSets

CONSTANTS None, Damaged,
  Files,                           \* names of work files
  Models,                          \* names of models, with their category
  Descriptions, Meshes, Credits,   \* names of description files, which have an order, of meshes, and texts of a credit
  MaxRequests, MaxFaults

VARIABLES works, list, index, folder, rules, requests, faults, saved, answered, listHurt, indexHurt, torn

worksVars == <<works, list, saved, listHurt>>
modelVars == <<index, folder, rules, answered, indexHurt, torn>>
vars == <<worksVars, modelVars, requests, faults>>

\* A folder: for each file the request that wrote it last, or none, or damage.
Empty == [descriptions |-> [d \in Descriptions |-> None], credit |-> None, meshes |-> [m \in Meshes |-> None]]

Init ==
  /\ works = [f \in Files |-> None] /\ list = {} /\ saved = {}
  /\ index = [m \in Models |-> None] /\ folder = [m \in Models |-> Empty]
  /\ rules = [open |-> TRUE, creditAsked |-> FALSE]
  /\ requests = 0 /\ faults = 0
  /\ answered = [m \in Models |-> None] /\ torn = {} /\ listHurt = FALSE /\ indexHurt = FALSE

Request == requests < MaxRequests /\ requests' = requests + 1
Fault == faults < MaxFaults /\ faults' = faults + 1

\* ---- works --------------------------------------------------------------

\* A work is written, then the list if the name is new to it. A list that cannot be read ends the request after the file is written.
Upload ==
  /\ Request /\ UNCHANGED <<faults, modelVars>>
  /\ \E f \in Files :
       /\ works' = [works EXCEPT ![f] = requests']
       /\ IF list = Damaged THEN list' = list /\ saved' = saved
          ELSE list' = list \union {f} /\ saved' = saved \union {f}
  /\ UNCHANGED listHurt

\* The file cannot be written, or the list cannot.
UploadFails ==
  /\ Request /\ Fault /\ UNCHANGED modelVars
  /\ \E f \in Files :
       \/ /\ works' = [works EXCEPT ![f] = Damaged] /\ saved' = saved \ {f}
          /\ UNCHANGED <<list, listHurt>>
       \/ /\ list # Damaged /\ f \notin list
          /\ works' = [works EXCEPT ![f] = requests'] /\ list' = Damaged /\ listHurt' = TRUE
          /\ UNCHANGED saved

\* ---- models -------------------------------------------------------------

\* A list that cannot be read is an empty one.
ReadModelSubmissionsIndex == IF index = Damaged THEN [m \in Models |-> None] ELSE index

Entry(credit) == [number |-> requests + 1, credit |-> credit]

\* What a submission needs: that models are taken, a credit where one is asked for, and no model of that name in the list, or the word
\* to replace it.
Accepted(model, credit, overwrite) ==
  /\ rules.open /\ (rules.creditAsked => credit # None)
  /\ ReadModelSubmissionsIndex[model] = None \/ overwrite

\* Variant: the credit of the old model is left where there is no new one.
CreditLeft(old, credit) == IF credit = None THEN old ELSE credit

\* The credit is written, or the one of the old model is removed.
CreditAfter(old, credit) == credit

\* The folder after the description, the credit and the meshes: what the old model had under other names stays.
Description(model, d) == [folder[model] EXCEPT !.descriptions[d] = requests + 1]
Credited(files, credit) == [files EXCEPT !.credit = CreditAfter(files.credit, credit)]
Meshed(files, meshes) == [files EXCEPT !.meshes = [m \in Meshes |-> IF m \in meshes THEN requests + 1 ELSE files.meshes[m]]]

Submit ==
  /\ Request /\ UNCHANGED <<faults, worksVars>>
  /\ \E model \in Models, d \in Descriptions, meshes \in SUBSET Meshes, credit \in Credits \union {None}, overwrite \in BOOLEAN :
       /\ Accepted(model, credit, overwrite)
       /\ folder' = [folder EXCEPT ![model] = Meshed(Credited(Description(model, d), credit), meshes)]
       /\ index' = [ReadModelSubmissionsIndex EXCEPT ![model] = Entry(credit)]
       /\ answered' = [answered EXCEPT ![model] = [number |-> requests', description |-> d, meshes |-> meshes, credit |-> credit]]
       /\ torn' = torn \ {model}
  /\ UNCHANGED <<rules, indexHurt>>

\* One of the writes fails, in their order: the answer is an error, and the model is in parts.
SubmitFails ==
  /\ Request /\ Fault /\ UNCHANGED worksVars
  /\ \E model \in Models, d \in Descriptions, meshes \in SUBSET Meshes, credit \in Credits \union {None}, overwrite \in BOOLEAN :
       /\ Accepted(model, credit, overwrite)
       /\ torn' = torn \union {model}
       /\ \/ /\ folder' = [folder EXCEPT ![model].descriptions[d] = Damaged]
             /\ UNCHANGED <<index, indexHurt>>
          \/ /\ credit # None
             /\ folder' = [folder EXCEPT ![model] = [Description(model, d) EXCEPT !.credit = Damaged]]
             /\ UNCHANGED <<index, indexHurt>>
          \/ \E m \in meshes : \E before \in SUBSET (meshes \ {m}) :
               /\ folder' = [folder EXCEPT ![model] = [Meshed(Credited(Description(model, d), credit), before) EXCEPT !.meshes[m] = Damaged]]
               /\ UNCHANGED <<index, indexHurt>>
          \/ /\ folder' = [folder EXCEPT ![model] = Meshed(Credited(Description(model, d), credit), meshes)]
             /\ index' = Damaged /\ indexHurt' = TRUE
  /\ UNCHANGED <<rules, answered>>

\* An administrator takes models or not, and asks for a credit or not.
Rule ==
  /\ \E name \in {"open", "creditAsked"} : rules' = [rules EXCEPT ![name] = ~@]
  /\ UNCHANGED <<works, list, index, folder, requests, faults, saved, answered, listHurt, indexHurt, torn>>

\* What a client that downloads a model gets: the first description of the folder, and every mesh in it.
Download(model) ==
  LET there == {d \in Descriptions : folder[model].descriptions[d] # None} IN
  [description |-> folder[model].descriptions[CHOOSE d \in there : \A e \in there : d <= e],
   meshes |-> {m \in Meshes : folder[model].meshes[m] # None}, credit |-> index[model].credit]

Next == Upload \/ UploadFails \/ Submit \/ SubmitFails \/ Rule

Spec == Init /\ [][Next]_vars

-----------------------------------------------------------------------------
TypeOK ==
  /\ works \in [Files -> {None, Damaged} \union 1..MaxRequests] /\ list \in SUBSET Files \union {Damaged}
  /\ rules \in [open : BOOLEAN, creditAsked : BOOLEAN] /\ requests \in 0..MaxRequests /\ faults \in 0..MaxFaults
  /\ torn \subseteq Models /\ saved \subseteq Files

\* A work whose upload was answered with success is whole and in the list of its folder, until a write of that list fails.
SavedIsListed == \A f \in saved : works[f] \in Nat /\ (listHurt \/ f \in list)

\* A model whose submission was answered is in the list with its credit, and its files and the credit beside them are those of that submission
\* and not of the model it replaced, whatever was refused or failed for other models, until a write of the list fails.
SubmittedIsThere ==
  \A model \in Models :
    answered[model] # None /\ model \notin torn =>
      LET a == answered[model] IN
      /\ indexHurt \/ index[model] = [number |-> a.number, credit |-> a.credit]
      /\ folder[model].descriptions[a.description] = a.number /\ folder[model].credit = a.credit
      /\ \A m \in a.meshes : folder[model].meshes[m] = a.number

\* Who downloads a model gets the description and the meshes that were sent last, if what it replaced had no other names.
DownloadIsNewest ==
  \A model \in Models :
    answered[model] # None /\ model \notin torn /\ ~indexHurt =>
      LET a == answered[model]
          got == Download(model)
      IN ({d \in Descriptions : folder[model].descriptions[d] # None} = {a.description} => got.description = a.number)
         /\ a.meshes \subseteq got.meshes /\ got.credit = folder[model].credit
=============================================================================
