------------------------------- MODULE MenuData -------------------------------
(***************************************************************************)
(* The pure algorithms of the menus: what a device is shown of a business's *)
(* menu at Ordering (menu/menu-process.service.ts) and what Wolt is sent of *)
(* it (provider/ordering/ordering-menu-mapper.ts, menu/menu.service.ts).    *)
(*                                                                         *)
(* A listing is a product in a menu.  Names, prices, descriptions and images *)
(* are copied by the code and are left out.                                 *)
(***************************************************************************)
EXTENDS Ordered, SequencesExt, FiniteSetsExt

CONSTANTS
    MenusShown,     \* the menus of a business that devices are shown
    MenusSent       \* the menus that Wolt is sent

NoParent == 0

Listing == [id : Nat, category : Nat]
Menu == [id : Nat, products : Seq(Listing)]

\* The tree of the categories, numbered from the roots down.
IsForest(parent) ==
  /\ IsFiniteSet(DOMAIN parent) /\ DOMAIN parent \subseteq Nat \ {NoParent}
  /\ \A c \in DOMAIN parent : parent[c] \in {NoParent} \union DOMAIN parent /\ parent[c] < c

Option == [id : Nat, max : Nat, suboptions : Seq(Nat)]
Product == [id : Nat, enabled : BOOLEAN, extras : Seq(Seq(Option))]

ASSUME MenusAssumption ==
  /\ \A m \in MenusShown : m.menus \in Seq(Menu) /\ m.shared \in Seq(Menu) /\ IsForest(m.parent)
  /\ MenusSent \subseteq Seq([id : Nat, products : Seq(Product)])

----------------------------------------------------------------------------
(* What a device is shown: processMenuData *)

\* The shared menus stand in for a business that has none of its own.
MenusToProcess(menus, shared) == IF menus = <<>> /\ shared # <<>> THEN shared ELSE menus

\* One product of a menu: an entry of its category, or one more menu of its entry.
AddListing(entries, menu, listing) ==
  LET known == {i \in DOMAIN entries : entries[i].id = listing.id}
  IN  IF known = {} THEN Append(entries, [id |-> listing.id, menuIds |-> <<menu>>])
      ELSE [entries EXCEPT ![Min(known)].menuIds = Append(@, menu)]

AddToCategory(byCategory, menu, listing) ==
  [byCategory EXCEPT ![listing.category] = AddListing(@, menu, listing)]

AddMenu(byCategory, menu) ==
  FoldLeft(LAMBDA acc, listing : AddToCategory(acc, menu.id, listing), byCategory, menu.products)

\* The listings of a sequence of menus, as <<menu, place in it>>.
Places(menus) == UNION {{i} \X (DOMAIN menus[i].products) : i \in DOMAIN menus}

CategoriesOf(menus) == {menus[p[1]].products[p[2]].category : p \in Places(menus)}

ProductsByCategory(menus, categories) ==
  FoldLeft(AddMenu, [c \in categories |-> <<>>], menus)

\* Mutation: a category is kept for its own products only.
OwnProducts(parent, byCategory) == {c \in DOMAIN parent : byCategory[c] # <<>>}

\* A category is kept for its products or for a subcategory that is kept.
KeptCategories(parent, byCategory) ==
  LET kept[c \in DOMAIN parent] ==
        byCategory[c] # <<>> \/ \E d \in DOMAIN parent : parent[d] = c /\ kept[d]
  IN  {c \in DOMAIN parent : kept[c]}

processMenuData(menus, shared, parent) ==
  LET used == MenusToProcess(menus, shared)
      by   == ProductsByCategory(used, DOMAIN parent \union CategoriesOf(used))
      kept == KeptCategories(parent, by)
  IN  [isSharedMenu |-> menus = <<>> /\ shared # <<>>,
       products     |-> [c \in kept |-> by[c]],
       menuIds      |-> [c \in kept |-> UNION {ToSet(by[c][i].menuIds) : i \in DOMAIN by[c]}]]

----------------------------------------------------------------------------
(* What Wolt is sent: mapToWoltCategory.  A product is [id, enabled, extras], its extras a *)
(* sequence of sequences of options, an option is [id, max, suboptions]. *)

WoltOption(option) ==
  [id     |-> option.id,
   type   |-> IF option.max > 2 THEN "MultiChoice" ELSE "SingleChoice",
   values |-> option.suboptions]

\* Mutation: the options that offer nothing stay.
EveryOption(extras) ==
  IF extras = <<>> THEN <<>> ELSE [i \in DOMAIN Head(extras) |-> WoltOption(Head(extras)[i])]

\* Only the first extra of a product is read, and an option that offers nothing is dropped.
WoltOptions(extras) ==
  IF extras = <<>> THEN <<>>
  ELSE LET offered == Kept(Head(extras), {i \in DOMAIN Head(extras) : Head(extras)[i].suboptions # <<>>})
       IN  [i \in DOMAIN offered |-> WoltOption(offered[i])]

mapToWoltCategory(category) ==
  [id    |-> category.id,
   items |-> [i \in DOMAIN category.products |->
                [external_data |-> category.products[i].id,
                 enabled       |-> category.products[i].enabled,
                 options       |-> WoltOptions(category.products[i].extras)]]]

getMenuCategory(menu) ==
  LET full == Kept(menu, {c \in DOMAIN menu : menu[c].products # <<>>})
  IN  [i \in DOMAIN full |-> mapToWoltCategory(full[i])]

----------------------------------------------------------------------------
(* What they are for, stated without their order of work *)

\* With a category its parent.
IsClosed(S, parent) == \A c \in S : parent[c] # NoParent => parent[c] \in S

\* A category of the tree and the ones it is inside.
Above(c, parent) ==
  {d \in DOMAIN parent : \A S \in SUBSET DOMAIN parent : c \in S /\ IsClosed(S, parent) => d \in S}

\* Places in their order: menu by menu.
Earlier(p, q) == p[1] < q[1] \/ (p[1] = q[1] /\ p[2] < q[2])

MenuByMenu(places) == InOrder(places, {p \in places \X places : Earlier(p[1], p[2])})

\* Every product the menus list in a category of the tree is shown, once in each of its categories
\* and with the menus it is on in their order, and the categories shown are those with a product
\* somewhere below.
ShowsTheMenus(m) ==
  LET used == MenusToProcess(m.menus, m.shared)
      data == processMenuData(m.menus, m.shared, m.parent)
      At(p) == used[p[1]].products[p[2]]
      Of(c) == {p \in Places(used) : At(p).category = c}
      MenuIds(places) == [k \in 1..Cardinality(places) |-> used[MenuByMenu(places)[k][1]].id]
  IN  /\ DOMAIN data.products = UNION {Above(c, m.parent) : c \in DOMAIN m.parent \intersect CategoriesOf(used)}
      /\ \A c \in DOMAIN data.products :
           LET shown == data.products[c]
           IN  /\ {shown[i].id : i \in DOMAIN shown} = {At(p).id : p \in Of(c)}
               /\ \A i, j \in DOMAIN shown : shown[i].id = shown[j].id => i = j
               /\ \A i \in DOMAIN shown : shown[i].menuIds = MenuIds({p \in Of(c) : At(p).id = shown[i].id})

\* Wolt is sent every product of the menu as it stands, no category without a product, and no
\* option without a value.
SendsTheMenu(menu) ==
  LET sent == getMenuCategory(menu)
      Items(c) == {<<sent[c].items[i].external_data, sent[c].items[i].enabled>> : i \in DOMAIN sent[c].items}
      Stands(c) == {<<menu[c].products[i].id, menu[c].products[i].enabled>> : i \in DOMAIN menu[c].products}
  IN  /\ UNION {{sent[c].id} \X Items(c) : c \in DOMAIN sent} =
         UNION {{menu[c].id} \X Stands(c) : c \in DOMAIN menu}
      /\ \A c \in DOMAIN sent :
           /\ sent[c].items # <<>>
           /\ \A i \in DOMAIN sent[c].items :
                \A k \in DOMAIN sent[c].items[i].options : sent[c].items[i].options[k].values # <<>>
=============================================================================
