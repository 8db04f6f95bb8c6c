------------------------------ MODULE Catalogue ------------------------------
(***************************************************************************)
(* One product of a store: its lifecycle, the options that make it         *)
(* configurable, their values, and the variants that pick one value of     *)
(* each (modules/products).  Every write is a transaction that locks the   *)
(* product row first, so every write is one step.  A variant's version is  *)
(* kept as what it is for: an edit form is fresh until some write bumps    *)
(* the version the form was opened at.  Names of products and options,     *)
(* codes and weights are left out; a price stands for the editable fields. *)
(* The gallery is only read here; module Gallery writes it.                *)
(***************************************************************************)
EXTENDS Integers, Sequences, FiniteSets, SequencesExt

CONSTANTS Options, Values, OptionOf, Names, Variants, Prices, Editors,
          MaxProductOptions, MaxOptionValues, MaxActiveVariants

ASSUME CatalogueAssumption ==
    /\ IsFiniteSet(Options) /\ IsFiniteSet(Values) /\ IsFiniteSet(Variants)
    /\ OptionOf \in [Values -> Options] /\ Names \subseteq Nat
    /\ MaxProductOptions \in 1 .. 3
    /\ {MaxOptionValues, MaxActiveVariants} \subseteq Nat \ {0}

VARIABLES product,      \* "absent", "draft", "published" or "archived"
          storeOpen,    \* the store's row says active
          optionPos,    \* where an option stands, Missing when it does not exist
          valuePos,     \* where a value stands within its option
          valueName,    \* the text of a value
          variants,     \* the variant rows, with their selections
          forms,        \* what each editor has read and not yet saved
          gallery       \* the file of each image row, in order of position

catalogueVars == <<product, storeOpen, optionPos, valuePos, valueName, variants, forms, gallery>>
optionVars == <<optionPos, valuePos, valueName>>

Missing == -1
NoForm == [variant |-> "none"]

Present == {o \in Options : optionPos[o] # Missing}
ValuesOf(o) == {v \in Values : OptionOf[v] = o /\ valuePos[v] # Missing}
AllValues == UNION {ValuesOf(o) : o \in Present}
WithStatus(s) == {x \in Variants : variants[x].status = s}
Active == WithStatus("active")
Assigned == UNION {variants[x].picks : x \in Variants}

(* The signature and the title a variant's selections derive: its values in
   the order of their options, and their texts. *)
Signature(picks, pos) ==
    CHOOSE s \in [1 .. Cardinality(picks) -> picks] :
        \A i, j \in DOMAIN s : i < j => pos[OptionOf[s[i]]] < pos[OptionOf[s[j]]]
Title(signature, names) == [i \in DOMAIN signature |-> names[signature[i]]]
Row(picks, price) ==
    LET signature == Signature(picks, optionPos)
    IN  [status |-> "active", picks |-> picks, signature |-> signature,
         title |-> Title(signature, valueName), price |-> price]
NoRow == [status |-> "none", picks |-> {}, signature |-> <<>>, title |-> <<>>, price |-> 0]

(* One current value of every option, and nothing else. *)
Complete(picks) ==
    /\ picks \subseteq AllValues
    /\ {OptionOf[v] : v \in picks} = Present
    /\ Cardinality(picks) = Cardinality(Present)

(* The partial unique index on (product, signature) of active variants. *)
SignatureFree(x, picks) ==
    \A y \in Active \ {x} : variants[y].signature # Signature(picks, optionPos)

(* What an editor sees of a variant, and what a version bump of the variants
   xs does to the forms opened on them. *)
Shown(x) == variants[x]

Bumped(xs) == [e \in Editors |-> IF forms[e].variant \in xs
                                 THEN [forms[e] EXCEPT !.fresh = FALSE] ELSE forms[e]]

CatalogueInit ==
    /\ product = "absent" /\ storeOpen = TRUE
    /\ optionPos = [o \in Options |-> Missing]
    /\ valuePos = [v \in Values |-> Missing]
    /\ valueName \in {f \in [Values -> Names] : \A v, w \in Values :
                          v # w /\ OptionOf[v] = OptionOf[w] => f[v] # f[w]}
    /\ variants = [x \in Variants |-> NoRow]
    /\ forms = [e \in Editors |-> NoForm]
    /\ gallery = <<>>

(***************************************************************************)
(* Creation and lifecycle                                                  *)
(***************************************************************************)
CreateProduct ==
    /\ product = "absent" /\ product' = "draft"
    /\ UNCHANGED <<storeOpen, optionVars, variants, forms, gallery>>

(* What a whole product may be set up with: options in an order, values of
   theirs, and variants that pick one value of each option, no two the same. *)
AcceptableSetup(os, order, vs, xs, chosen) ==
    /\ Cardinality(os) <= MaxProductOptions
    /\ {order[o] : o \in os} = 0 .. Cardinality(os) - 1
    /\ {OptionOf[v] : v \in vs} = os
    /\ \A o \in os : Cardinality({v \in vs : OptionOf[v] = o}) <= MaxOptionValues
    /\ Cardinality(xs) <= MaxActiveVariants
    /\ os = {} => Cardinality(xs) = 1
    /\ \A x \in xs : {OptionOf[v] : v \in chosen[x]} = os /\ Cardinality(chosen[x]) = Cardinality(os)
    /\ \A x, y \in xs : x # y => chosen[x] # chosen[y]

(* All of it is inserted in one transaction. *)
CreateSetup ==
    /\ product = "absent"
    /\ \E os \in SUBSET Options, vs \in SUBSET Values, order \in [Options -> 0 .. MaxProductOptions - 1],
          xs \in SUBSET Variants :
        \E chosen \in [xs -> SUBSET vs], price \in Prices :
            /\ AcceptableSetup(os, order, vs, xs, chosen)
            /\ product' = "draft"
            /\ optionPos' = [o \in Options |-> IF o \in os THEN order[o] ELSE Missing]
            /\ valuePos' = [v \in Values |-> IF v \notin vs THEN Missing
                   ELSE Cardinality({w \in vs : OptionOf[w] = OptionOf[v] /\ valueName[w] < valueName[v]})]
            /\ variants' = [x \in Variants |-> IF x \notin xs THEN NoRow
                   ELSE LET s == Signature(chosen[x], order)
                        IN  [status |-> "active", picks |-> chosen[x], signature |-> s,
                             title |-> Title(s, valueName), price |-> price]]
            /\ UNCHANGED <<storeOpen, valueName, forms, gallery>>

(* Publishing looks at the gallery, the options and every active variant
   under the locks of the transaction that sets the status. *)
Publishable ==
    /\ gallery # <<>> /\ Active # {}
    /\ Present = {} => Cardinality(Active) = 1
    /\ \A x \in Active :
          /\ Complete(variants[x].picks)
          /\ variants[x].signature = Signature(variants[x].picks, optionPos)
    /\ \A x, y \in Active : x # y => variants[x].signature # variants[y].signature

TransitionProduct(desired) ==
    /\ product \in {"draft", "published"} \ {desired} /\ storeOpen
    /\ desired = "published" => Publishable
    /\ product' = desired
    /\ UNCHANGED <<storeOpen, optionVars, variants, forms, gallery>>

Archive ==
    /\ product \in {"draft", "published"} /\ storeOpen
    /\ product' = "archived"
    /\ variants' = [x \in Variants |-> IF x \in Active THEN [variants[x] EXCEPT !.status = "archived"]
                                       ELSE variants[x]]
    /\ forms' = Bumped(Active)
    /\ UNCHANGED <<storeOpen, optionVars, gallery>>

StoreCloses ==
    /\ storeOpen /\ storeOpen' = FALSE
    /\ UNCHANGED <<product, optionVars, variants, forms, gallery>>

(***************************************************************************)
(* Options and values, of a draft only                                     *)
(***************************************************************************)
InDraft == product = "draft"

CreateOption(o) ==
    /\ InDraft /\ o \notin Present /\ Cardinality(Present) < MaxProductOptions
    /\ optionPos' = [optionPos EXCEPT ![o] = Cardinality(Present)]
    /\ UNCHANGED <<product, storeOpen, valuePos, valueName, variants, forms, gallery>>

(* The gap is closed one position at a time, for at most three options. *)
CloseOptionGap(pos, deleted) ==
    LET first == [p \in Options |-> IF deleted = 0 /\ pos[p] = 1 THEN 0 ELSE pos[p]]
    IN  [p \in Options |-> IF deleted <= 1 /\ first[p] = 2 THEN 1 ELSE first[p]]

DeleteOption(o) ==
    /\ InDraft /\ o \in Present
    /\ \A v \in Assigned : OptionOf[v] # o
    /\ valuePos' = [v \in Values |-> IF OptionOf[v] = o THEN Missing ELSE valuePos[v]]
    /\ optionPos' = CloseOptionGap([optionPos EXCEPT ![o] = Missing], optionPos[o])
    /\ UNCHANGED <<product, storeOpen, valueName, variants, forms, gallery>>

CreateValue(v, n) ==
    LET siblings == ValuesOf(OptionOf[v])
    IN  /\ InDraft /\ OptionOf[v] \in Present /\ v \notin siblings
        /\ Cardinality(siblings) < MaxOptionValues
        /\ \A w \in siblings : valueName[w] # n
        /\ valueName' = [valueName EXCEPT ![v] = n]
        /\ valuePos' = [valuePos EXCEPT ![v] = Cardinality(siblings)]
        /\ UNCHANGED <<product, storeOpen, optionPos, variants, forms, gallery>>

(* Slip: a renamed value leaves the variants' titles and versions alone. *)
RefreshNothing(names) == UNCHANGED <<variants, forms>>

(* Every variant, archived ones too, gets its signature and title anew. *)
RefreshVariantGraph(names) ==
    LET rows == Variants \ WithStatus("none")
    IN  /\ variants' = [x \in Variants |-> IF x \notin rows THEN variants[x]
               ELSE LET s == Signature(variants[x].picks, optionPos)
                    IN  [variants[x] EXCEPT !.signature = s, !.title = Title(s, names)]]
        /\ forms' = Bumped(rows)

UpdateValue(v, n) ==
    /\ InDraft /\ v \in AllValues
    /\ \A w \in ValuesOf(OptionOf[v]) \ {v} : valueName[w] # n
    /\ valueName' = [valueName EXCEPT ![v] = n]
    /\ RefreshVariantGraph(valueName')
    /\ UNCHANGED <<product, storeOpen, optionPos, valuePos, gallery>>

DeleteValue(v) ==
    /\ InDraft /\ v \in AllValues /\ v \notin Assigned
    /\ valuePos' = [w \in Values |->
           CASE w = v -> Missing
             [] OptionOf[w] = OptionOf[v] /\ valuePos[w] > valuePos[v] -> valuePos[w] - 1
             [] OTHER -> valuePos[w]]
    /\ UNCHANGED <<product, storeOpen, optionPos, valueName, variants, forms, gallery>>

(* The requested order must name every current value exactly once. *)
ReorderValues(o) ==
    \E order \in [ValuesOf(o) -> 0 .. Cardinality(ValuesOf(o)) - 1] :
        /\ InDraft /\ o \in Present
        /\ \A v, w \in ValuesOf(o) : order[v] = order[w] => v = w
        /\ valuePos' = [v \in Values |-> IF v \in ValuesOf(o) THEN order[v] ELSE valuePos[v]]
        /\ UNCHANGED <<product, storeOpen, optionPos, valueName, variants, forms, gallery>>

(***************************************************************************)
(* Variants                                                                *)
(***************************************************************************)
CreateVariant(x, picks, price) ==
    /\ InDraft /\ variants[x].status = "none"
    /\ Cardinality(Active) < MaxActiveVariants
    /\ Complete(picks) /\ SignatureFree(x, picks)
    /\ variants' = [variants EXCEPT ![x] = Row(picks, price)]
    /\ UNCHANGED <<product, storeOpen, optionVars, forms, gallery>>

ReplaceOptionValues(x, picks) ==
    /\ InDraft /\ x \in Active
    /\ Complete(picks) /\ SignatureFree(x, picks)
    /\ variants' = [variants EXCEPT ![x] = Row(picks, variants[x].price)]
    /\ forms' = Bumped({x})
    /\ UNCHANGED <<product, storeOpen, optionVars, gallery>>

OpenForm(e, x) ==
    /\ x \in Active /\ forms[e] = NoForm
    /\ forms' = [forms EXCEPT ![e] = [variant |-> x, seen |-> Shown(x), fresh |-> TRUE]]
    /\ UNCHANGED <<product, storeOpen, optionVars, variants, gallery>>

GiveUpForm(e) ==
    /\ forms[e] # NoForm /\ forms' = [forms EXCEPT ![e] = NoForm]
    /\ UNCHANGED <<product, storeOpen, optionVars, variants, gallery>>

(* A save names the version its form was opened at. *)
CanSave(e) == forms[e] # NoForm /\ forms[e].variant \in Active /\ forms[e].fresh

Saved(e, row) ==
    LET x == forms[e].variant
    IN  /\ variants' = [variants EXCEPT ![x] = row]
        /\ forms' = [Bumped({x}) EXCEPT ![e] = NoForm]
        /\ UNCHANGED <<product, storeOpen, optionVars, gallery>>

UpdateVariant(e, price) ==
    /\ CanSave(e)
    /\ Saved(e, [variants[forms[e].variant] EXCEPT !.price = price])

HasOtherActiveVariant(x) == Active \ {x} # {}

ArchiveVariant(e) ==
    LET x == forms[e].variant
    IN  /\ CanSave(e) /\ storeOpen /\ product # "archived"
        /\ product = "published" => HasOtherActiveVariant(x)
        /\ Saved(e, [variants[x] EXCEPT !.status = "archived"])

CatalogueNext ==
    \/ CreateProduct \/ CreateSetup \/ Archive \/ StoreCloses
    \/ TransitionProduct("published") \/ TransitionProduct("draft")
    \/ \E o \in Options : CreateOption(o) \/ DeleteOption(o) \/ ReorderValues(o)
    \/ \E v \in Values : DeleteValue(v) \/ \E n \in Names : CreateValue(v, n) \/ UpdateValue(v, n)
    \/ \E x \in Variants, picks \in SUBSET Values :
          ReplaceOptionValues(x, picks) \/ \E price \in Prices : CreateVariant(x, picks, price)
    \/ \E e \in Editors : \/ GiveUpForm(e) \/ ArchiveVariant(e)
                          \/ \E x \in Variants : OpenForm(e, x)
                          \/ \E price \in Prices : UpdateVariant(e, price)

(***************************************************************************)
(* Properties                                                              *)
(***************************************************************************)
(* A published product can be bought: it has an image, and an active variant;
   each active variant names one current value of every option, and no two
   are the same.  Publishing checks it once; this says that nothing done to
   options, variants or the gallery afterwards takes it back. *)
PublishedIsSellable == product = "published" => Publishable

(* What a variant stores of its selections never drifts from them: the
   signature lists existing values in the order of the options, the title
   their present texts, whatever was renamed, removed or reordered since. *)
LabelsFollowSelections ==
    \A x \in Variants \ WithStatus("none") :
        LET row == variants[x]
        IN  /\ row.picks \subseteq AllValues
            /\ row.signature = Signature(row.picks, optionPos)
            /\ row.title = Title(row.signature, valueName)

(* Options, and the values of each, stand at 0, 1, 2... with no gap and no
   tie, as the storefront and the next insertion assume. *)
PositionsAreDense ==
    /\ {optionPos[o] : o \in Present} = 0 .. Cardinality(Present) - 1
    /\ \A o \in Present : {valuePos[v] : v \in ValuesOf(o)} = 0 .. Cardinality(ValuesOf(o)) - 1

(* An editor only ever saves over what the form showed: a save that changes a
   variant finds it as it was when the form was opened, price, status, title
   and selections alike. *)
SavesOverWhatWasSeen ==
    [][\A e \in Editors :
          forms[e] # NoForm /\ forms'[e] = NoForm /\ variants' # variants
              => forms[e].seen = Shown(forms[e].variant)]_catalogueVars
=============================================================================
