------------------------------- MODULE Fichiers -------------------------------
(***************************************************************************)
(* Files of the storage and the rows that point at them.  The photo of an  *)
(* article, the image of an announcement and the voice message of a parcel *)
(* are replaced by writing the row, then deleting the old file; the avatar *)
(* of an account, its professional document and the photo of a point by    *)
(* deleting the old file, then writing the row.  Photos of a packaging or  *)
(* of a parcel are a list, written as a whole.  A script transfers to the  *)
(* storage, while the API runs, the files that are elsewhere.              *)
(*                                                                         *)
(* Every upload has a key of its own: the name of the request, or the row  *)
(* and the passage of the script.                                          *)
(***************************************************************************)
EXTENDS Naturals, FiniteSets

CONSTANTS
    Lignes,        \* rows with one file
    Genre,         \* per row: "apres" where the old file is deleted after the write, or "avant"
    Guichets,      \* requests in flight, each handles one row or the list
    MAX_PHOTOS,    \* photos of the list
    PassagesMax,   \* bound on the runs of the script
    PannesMax,     \* bound on the failures
    Ancien,        \* a file that is not on the storage: deleteFile ignores it
    Aucun, Detruite

\* The keys of the script: the row and the passage, or the passage alone where rows share a file.
Cles == (Lignes \cup {Aucun}) \X Nat

\* What the model takes of its constants.
HypothesesFichiers ==
    /\ Genre \in [Lignes -> {"apres", "avant"}]
    /\ Aucun \notin Lignes
    /\ \A f \in {Aucun, Ancien, Detruite} : f \notin Guichets \cup Cles
    /\ \A r \in Guichets : r \notin Cles
    /\ MAX_PHOTOS \in Nat /\ PassagesMax \in Nat /\ PannesMax \in Nat

VARIABLES
    partage,    \* the rows have the same old file, hence the same file once transferred
    champ,      \* per row: its file, Aucun, or Detruite
    photos,     \* of the list
    entrepot,   \* files on the storage
    demande,    \* per request: what it is about to do
    script,     \* the script: what it read, the rows that remain, the file just sent
    exposees,   \* rows that a removal or an interruption may leave on a deleted file
    pannes

varsFichiers == <<partage, champ, photos, entrepot, demande, script, exposees, pannes>>

Oisive == [etape |-> "repos", ligne |-> Aucun, lu |-> Aucun, liste |-> {}, de |-> Aucun]
ScriptArrete == [passage |-> 0, lu |-> [l \in Lignes |-> Aucun], reste |-> {}, envoi |-> Aucun,
                 pour |-> Aucun, connus |-> {}]

InitFichiers ==
    /\ partage \in BOOLEAN
    /\ champ \in [Lignes -> {Aucun, Ancien}]
    /\ photos = {}
    /\ entrepot = {}
    /\ demande = [r \in Guichets |-> Oisive]
    /\ script = ScriptArrete
    /\ exposees = {}
    /\ pannes = 0

Suivre(r, etape) == demande' = [demande EXCEPT ![r].etape = etape]

\* uploadFile
Stocker(f) == entrepot' = entrepot \cup {f}

\* deleteFile: it may fail, silently; what is not on the storage is left alone.
Effacer(f) == entrepot' \in {entrepot, entrepot \ {f}}

-----------------------------------------------------------------------------
(* A row with one file *)

\* The row is loaded, then the new file is sent; nothing else happens if that fails.
Remplacer(r, l) ==
    /\ demande[r].etape = "repos" /\ champ[l] # Detruite
    /\ demande' = [demande EXCEPT ![r] = [Oisive EXCEPT !.etape = "televerser", !.ligne = l,
                                                        !.lu = champ[l]]]
    /\ UNCHANGED <<partage, champ, photos, entrepot, script, exposees, pannes>>

Envoyer(r) ==
    /\ demande[r].etape = "televerser"
    /\ Stocker(r)
    /\ Suivre(r, IF Genre[demande[r].ligne] = "apres" THEN "ecrire" ELSE "effacer")
    /\ UNCHANGED <<partage, champ, photos, script, exposees, pannes>>

\* Variant: the file deleted is the one of the row at that moment.
AEffacerRelu(r) == champ[demande[r].ligne]

\* The file that the row had when the request loaded it.
AEffacer(r) == demande[r].lu

EffacerAncien(r) ==
    /\ demande[r].etape = "effacer"
    /\ IF AEffacer(r) = Aucun THEN UNCHANGED entrepot ELSE Effacer(AEffacer(r))
    /\ Suivre(r, IF Genre[demande[r].ligne] = "apres" THEN "fini" ELSE "ecrire")
    /\ UNCHANGED <<partage, champ, photos, script, exposees, pannes>>

\* UPDATE ... WHERE id: nothing if the row was destroyed meanwhile.
EcrireLigne(r) ==
    LET l == demande[r].ligne
    IN /\ demande[r].etape = "ecrire"
       /\ champ' = IF champ[l] = Detruite THEN champ ELSE [champ EXCEPT ![l] = r]
       /\ Suivre(r, IF Genre[l] = "apres" THEN "effacer" ELSE "fini")
       /\ UNCHANGED <<partage, photos, entrepot, script, exposees, pannes>>

\* remove: the file, then the row.
Retirer(r, l) ==
    /\ demande[r].etape = "repos" /\ champ[l] # Detruite /\ Genre[l] = "apres"
    /\ demande' = [demande EXCEPT ![r] = [Oisive EXCEPT !.etape = "detruire", !.ligne = l]]
    /\ IF champ[l] = Aucun THEN UNCHANGED entrepot ELSE Effacer(champ[l])
    /\ exposees' = exposees \cup {l}
    /\ UNCHANGED <<partage, champ, photos, script, pannes>>

Detruire(r) ==
    /\ demande[r].etape = "detruire"
    /\ champ' = [champ EXCEPT ![demande[r].ligne] = Detruite]
    /\ Suivre(r, "fini")
    /\ UNCHANGED <<partage, photos, entrepot, script, exposees, pannes>>

-----------------------------------------------------------------------------
(* A list of photos *)

\* The length is checked on the list that is written back.
AjouterPhotos(r) ==
    /\ demande[r].etape = "repos" /\ Cardinality(photos) < MAX_PHOTOS
    /\ demande' = [demande EXCEPT ![r] = [Oisive EXCEPT !.etape = "photos", !.liste = photos]]
    /\ UNCHANGED <<partage, champ, photos, entrepot, script, exposees, pannes>>

\* Variant: the new photos join those of the list at that moment.
ListeRelue(r) == photos \cup {r}

ListeAjoutee(r) == demande[r].liste \cup {r}

EcrirePhotos(r) ==
    /\ demande[r].etape = "photos"
    /\ Stocker(r)
    /\ photos' = ListeAjoutee(r)
    /\ Suivre(r, "fini")
    /\ UNCHANGED <<partage, champ, script, exposees, pannes>>

\* retirerPhoto: the file, then the list without it.
RetirerPhoto(r, f) ==
    /\ demande[r].etape = "repos" /\ f \in photos
    /\ Effacer(f)
    /\ demande' = [demande EXCEPT ![r] = [Oisive EXCEPT !.etape = "liste", !.de = f,
                                                        !.liste = photos \ {f}]]
    /\ UNCHANGED <<partage, champ, photos, script, exposees, pannes>>

EcrireListe(r) ==
    /\ demande[r].etape = "liste"
    /\ photos' = demande[r].liste
    /\ Suivre(r, "fini")
    /\ UNCHANGED <<partage, champ, entrepot, script, exposees, pannes>>

\* The storage or the database refuses, or the process stops: the request ends where it is.
InterrompreFichier(r) ==
    /\ demande[r].etape \notin {"repos", "fini"} /\ pannes < PannesMax
    /\ exposees' = IF demande[r].etape = "ecrire" THEN exposees \cup {demande[r].ligne}
                   ELSE exposees
    /\ Suivre(r, "fini")
    /\ pannes' = pannes + 1
    /\ UNCHANGED <<partage, champ, photos, entrepot, script>>

-----------------------------------------------------------------------------
(* migrerFichiersVersR2.js *)

\* The rows are read together, those of the storage are left out.
Migrer ==
    LET lues == {l \in Lignes : champ[l] = Ancien}
    IN /\ script.reste = {} /\ script.pour = Aucun /\ script.passage < PassagesMax
       /\ script' = [ScriptArrete EXCEPT !.passage = script.passage + 1, !.lu = champ,
                                         !.reste = lues]
       /\ UNCHANGED <<partage, champ, photos, entrepot, demande, exposees, pannes>>

\* The old file is downloaded and sent, once per old address; a failure leaves the row as it is.
Transferer(l) ==
    LET cle == <<IF partage THEN Aucun ELSE l, script.passage>>
    IN /\ script.pour = Aucun /\ l \in script.reste
       /\ \/ /\ script' = [script EXCEPT !.reste = @ \ {l}, !.pour = l, !.envoi = cle,
                                         !.connus = @ \cup {cle}]
             /\ IF cle \in script.connus THEN UNCHANGED entrepot ELSE Stocker(cle)
             /\ UNCHANGED pannes
          \/ /\ pannes < PannesMax /\ pannes' = pannes + 1
             /\ script' = [script EXCEPT !.reste = @ \ {l}]
             /\ UNCHANGED entrepot
       /\ UNCHANGED <<partage, champ, photos, demande, exposees>>

\* UPDATE ... WHERE id, whatever the row holds now.
Remplir ==
    /\ script.pour # Aucun
    /\ champ' = IF champ[script.pour] = Detruite THEN champ
                ELSE [champ EXCEPT ![script.pour] = script.envoi]
    /\ script' = [script EXCEPT !.pour = Aucun, !.envoi = Aucun]
    /\ UNCHANGED <<partage, photos, entrepot, demande, exposees, pannes>>

\* Stopped by hand, to be run again.
ArreterScript ==
    /\ script.reste # {} \/ script.pour # Aucun
    /\ script' = [ScriptArrete EXCEPT !.passage = script.passage]
    /\ UNCHANGED <<partage, champ, photos, entrepot, demande, exposees, pannes>>

NextFichiers ==
    \/ Migrer \/ Remplir \/ ArreterScript
    \/ \E l \in Lignes : Transferer(l)
    \/ \E r \in Guichets :
          \/ \E l \in Lignes : Remplacer(r, l) \/ Retirer(r, l)
          \/ Envoyer(r) \/ EffacerAncien(r) \/ EcrireLigne(r) \/ Detruire(r)
          \/ AjouterPhotos(r) \/ EcrirePhotos(r) \/ EcrireListe(r) \/ InterrompreFichier(r)
          \/ \E f \in Guichets : RetirerPhoto(r, f)

SpecFichiers == InitFichiers /\ [][NextFichiers]_varsFichiers

-----------------------------------------------------------------------------
(* Properties *)

\* Its old file is deleted and its new one is not written yet.
EntreDeux(l) ==
    \E r \in Guichets : Genre[l] = "avant" /\ demande[r].ligne = l /\ demande[r].etape = "ecrire"

\* However replacements of a row cross, fail and meet the script: the row never points at a
\* file that was deleted, except while a replacement that deletes first is on its way, after
\* its interruption, and during a removal.  Files that several rows share before the transfer
\* are the exception: they are one file afterwards, and replacing it in one row deletes it for
\* the others.  The list of photos never exceeds its limit.
FichiersVivants ==
    /\ \A l \in Lignes :
          champ[l] \in {Aucun, Ancien, Detruite} \/ champ[l] \in entrepot
              \/ partage \/ l \in exposees \/ EntreDeux(l)
    /\ Cardinality(photos) <= MAX_PHOTOS
=============================================================================
