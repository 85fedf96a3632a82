SPECIFICATION FairSpec
CONSTANTS
    Products <- MCProducts
    NameOf <- MCNameOf
    MenuPage = 2
    OrderRows = {r1}
    UserRows = {u1}
INVARIANTS
    TypeOK
    OnlyUsersStopUpgrades
    DowngradeRestores
    CatalogueIsWhole
    MenuIsWhole
    ServesModels
    StopDisconnects
PROPERTIES
    KeepsRows
    Settles
