SPECIFICATION Spec
CONSTANTS
    Years = {2023, 2024, 2025}
    StartDays <- MCStartDays
    Step = 12
    MaxTicks = 3
    None = None
INVARIANTS
    OffersAMonth
    ShownSlotWasOffered
    SlotIsAhead
