--------------------------- MODULE RevealSecrets ---------------------------
(***************************************************************************)
(* The browser's IndexedDB store of hidden numbers (public/secrets.js),    *)
(* for one match and its game.  A number is kept under the operation it    *)
(* was drawn for, "creation" or "join"; a link leads from the game to the  *)
(* operation.  Writes go through one queue and one transaction each, so    *)
(* each is one step.  The store outlives the page.                         *)
(***************************************************************************)
CONSTANTS Choices, None

ASSUME SecretsAssumption == None \notin Choices

VARIABLES
    drafts,     \* the number kept for each operation, or None
    link        \* the operation the game is linked to, or None

secretVars == <<drafts, link>>

Operations == {"creation", "join"}

SecretsInit ==
    /\ drafts = [o \in Operations |-> None]
    /\ link = None

\* createRevealSecret: drawn once for an operation; asked again, it must be
\* for the same number.
MayDraw(o, c) == drafts[o] \in {None, c}
Draw(o, c) == drafts' = [drafts EXCEPT ![o] = c]

\* bindSecretToGame.  The mutant links the game to the side it is played on.
BindsSide(o) == link' = IF o = "creation" THEN "creator" ELSE "joiner"
Bind(o) == link' = o

\* loadSecretForGame
SecretForGame == IF link = None THEN None ELSE drafts[link]

\* deleteSecretForGame: the link, the number and the operation go together.
Forget ==
    /\ link' = None
    /\ drafts' = IF link = None THEN drafts ELSE [drafts EXCEPT ![link] = None]
=============================================================================
