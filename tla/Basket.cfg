SPECIFICATION Spec
CONSTANTS
    rice = rice
    brown = brown
    milk = milk
    ItemIds <- MCItemIds
    NameOf <- MCNameOf
    Categories <- MCCategories
    Limits <- MCLimits
    Objs = {o1, o2, o3, o4}
    None = None
    FreshCellMax = 4
SYMMETRY Symmetry
INVARIANTS
    TypeOK
    OneEntryPerItem
    
    ActionBarTellsItems
    RowsAgreeWithBasket
    CheckoutHasItems
PROPERTY
    OtherItemsUntouched
