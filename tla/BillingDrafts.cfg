SPECIFICATION Spec
CONSTANTS
    o1 = o1
    o2 = o2
    c1 = c1
    c2 = c2
    Orders = {o1, o2}
    Customers = {c1, c2}
    CustomerOf <- OneCustomer
    CurrencyOf <- AllUsd
    Invoices = {i1, i2}
    Keys = {k1, k2}
    Amounts = {0, 1}
    Volatile = {o1, o2}
    Creators = {r1, r2}
    Editors = {e1}
    Issuers = {}
    MaxFailures = 0
    NULL = NULL
SYMMETRY Symmetry
CHECK_DEADLOCK FALSE
INVARIANT PointerMatchesLine
PROPERTIES BillsOnlyBillable RetryFindsInvoice ImplementsLedger
