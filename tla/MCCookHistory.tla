--------------------------- MODULE MCCookHistory ---------------------------
(***************************************************************************)
(* Small instances of CookHistory: two dishes, limits of two uncollected   *)
(* and one collected entry.  Recipe 1 sorts after the recipe of id 2, and  *)
(* both ids collide with ids of the history, as in Recipes.json.           *)
(***************************************************************************)
EXTENDS CookHistory

NoRecipes == {}
TwoRecipes == {[id |-> 1, seqid |-> 3, dish |-> "rice"],
               [id |-> 2, seqid |-> 1, dish |-> "fish"]}
OneRecipe == {[id |-> 2, seqid |-> 1, dish |-> "fish"]}
TwoDishes == {"rice", "fish"}
Now == {1}
=============================================================================
