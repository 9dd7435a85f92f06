SPECIFICATION Spec
CONSTANTS
  NoEdit = NoEdit
  Products = {p1}
  Prices = {50, 60000}
  Discounts = {40, 49, 600}
  Quantities = {1, 2}
  MaxLines = 2
  Editors = {e1, e2}
CHECK_DEADLOCK FALSE
INVARIANTS
  AmountsAddUp
  ItemsAddUp
PROPERTIES
  CrossedOnlyUnseen
