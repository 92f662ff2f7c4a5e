SPECIFICATION Spec
CONSTANTS
  o1 = o1
  o2 = o2
  c1 = c1
  cart = cart
  h1 = h1
  h2 = h2
  r1 = r1
  Null = Null
  Orders = {o1, o2}
  Customers = {c1}
  Carts = {cart}
  Qty <- MCQty
  InitialStock = 4
  MaxUnpaid = 1
  Proofs = {}
  UnverifiedWrites = TRUE
INVARIANT AppliedOnce
SYMMETRY Symmetry
